----------------------- MODULE DaemonSetRolloutProofs -----------------------
(***************************************************************************)
(* Proofs about DaemonSetRollout, for any DaemonSets, nodes and bounds.    *)
(***************************************************************************)
EXTENDS DaemonSetRollout, TLAPS

(***************************************************************************)
(* The controller never runs ahead of the spec, its status never ahead of  *)
(* the controller, and a status that says all pods are updated says so of  *)
(* pods that are at least at the observed generation.                      *)
(***************************************************************************)
GenerationsOK ==
    \A ds \in DaemonSets :
       /\ observed[ds] <= cached[ds] /\ cached[ds] <= gen[ds]
       /\ \A n \in Nodes : podGen[ds][n] <= cached[ds]
       /\ allUpdated[ds] => \A n \in Nodes : podGen[ds][n] >= observed[ds]

\* The DaemonSet under validation has been observed at the expected generation.
AwaitedOK ==
    /\ pc \in {"validate", "service", "apiDaemonset", "apiService"} => cur \in DaemonSets
    /\ pc = "validate" => observed[cur] >= expected[cur]

IInv == TypeOK /\ GenerationsOK /\ AwaitedOK /\ WaitIsSound

USE RolloutAssumption DEF Goto, Locations, Ended

LEMMA InitIInv == Init => IInv
<1> SUFFICES ASSUME Init PROVE IInv
  OBVIOUS
<1>1. TypeOK
  BY DEF Init, TypeOK, Unseen
<1>2. GenerationsOK /\ AwaitedOK
  BY DEF Init, GenerationsOK, AwaitedOK
<1>3. WaitIsSound
  BY DEF Init, WaitIsSound, Validated
<1> QED BY <1>1, <1>2, <1>3 DEF IInv

-----------------------------------------------------------------------------
LEMMA ControllerType ==
  ASSUME TypeOK, NEW ds \in DaemonSets,
         \/ ControllerObserves(ds) \/ ControllerWritesStatus(ds) \/ OtherEdit(ds)
         \/ \E n \in Nodes : ControllerReplacesPod(ds, n) \/ PodBecomesReady(ds, n),
         UNCHANGED given
  PROVE  TypeOK'
<1> USE DEF TypeOK, status, pods, cluster, given
<1>1. CASE ControllerObserves(ds)
  BY <1>1 DEF ControllerObserves
<1>2. CASE ControllerWritesStatus(ds)
  <2>1. Updated(ds) \in BOOLEAN /\ Ready(ds) \in BOOLEAN
    BY DEF Updated, Ready
  <2>2. /\ observed' \in [DaemonSets -> Nat]
        /\ allUpdated' \in [DaemonSets -> BOOLEAN]
        /\ allReady' \in [DaemonSets -> BOOLEAN]
    BY <1>2, <2>1 DEF ControllerWritesStatus
  <2>3. seen' \in [DaemonSets -> [observed : Nat, new : BOOLEAN, current : BOOLEAN]]
    BY <1>2 DEF ControllerWritesStatus, Touch
  <2> QED
    BY <1>2, <2>2, <2>3 DEF ControllerWritesStatus
<1>3. CASE OtherEdit(ds)
  <2>1. seen' \in [DaemonSets -> [observed : Nat, new : BOOLEAN, current : BOOLEAN]]
    BY <1>3 DEF OtherEdit, Touch
  <2>2. gen' \in [DaemonSets -> Nat] /\ edits' \in 0 .. MaxEdits
    BY <1>3 DEF OtherEdit
  <2> QED
    BY <1>3, <2>1, <2>2 DEF OtherEdit
<1>4. ASSUME NEW n \in Nodes, ControllerReplacesPod(ds, n) PROVE TypeOK'
  BY <1>4 DEF ControllerReplacesPod
<1>5. ASSUME NEW n \in Nodes, PodBecomesReady(ds, n) PROVE TypeOK'
  BY <1>5 DEF PodBecomesReady
<1> QED BY <1>1, <1>2, <1>3, <1>4, <1>5

LEMMA FaultTyped == ASSUME TypeOK, Fault PROVE faults' \in 0 .. MaxFaults
  BY DEF TypeOK, Fault

LEMMA ProcessType ==
  ASSUME TypeOK, Step \/ Failure \/ JobRetry, UNCHANGED given
  PROVE  TypeOK'
<1> USE DEF TypeOK, status, pods, cluster, given
<1>1. CASE preFlightChecks \/ PermissionsDone
  BY <1>1 DEF preFlightChecks, PermissionsDone
<1>2. CASE \E c \in PermissionCalls : Grant(c)
  BY <1>2 DEF Grant
<1>3. CASE getPXDaemonsets
  <2>1. seen' \in [DaemonSets -> [observed : Nat, new : BOOLEAN, current : BOOLEAN]]
    BY <1>3 DEF getPXDaemonsets
  <2> QED
    BY <1>3, <2>1 DEF getPXDaemonsets
<1>4. CASE \E ds \in DaemonSets : SkipUpdate(ds) \/ RefusePinned(ds) \/ AwaitGeneration(ds)
  BY <1>4 DEF SkipUpdate, RefusePinned, AwaitGeneration
<1>5. ASSUME NEW ds \in DaemonSets, Updating(ds)
      PROVE  /\ expected' \in [DaemonSets -> Nat]
             /\ StoreImage(ds) =>
                   /\ gen' \in [DaemonSets -> Nat] /\ newAt' \in [DaemonSets -> Nat]
                   /\ seen' \in [DaemonSets -> [observed : Nat, new : BOOLEAN, current : BOOLEAN]]
  <2>1. expected' \in [DaemonSets -> Nat]
    BY <1>5 DEF Updating
  <2>2. ASSUME StoreImage(ds)
        PROVE  gen' \in [DaemonSets -> Nat] /\ newAt' \in [DaemonSets -> Nat]
    BY <2>2 DEF StoreImage
  <2>3. ASSUME StoreImage(ds)
        PROVE  seen' \in [DaemonSets -> [observed : Nat, new : BOOLEAN, current : BOOLEAN]]
    BY <2>3 DEF StoreImage, Touch
  <2> QED BY <2>1, <2>2, <2>3
<1>6. CASE \E ds \in DaemonSets : UpdateDaemonSet(ds) \/ UpdateRefused(ds)
  BY <1>5, <1>6 DEF UpdateDaemonSet, UpdateRefused, Updating
<1>7. CASE \E ds \in DaemonSets : UpdateReplyLost(ds) \/ UpdateFails(ds)
  BY <1>5, <1>7, FaultTyped DEF UpdateReplyLost, UpdateFails, Updating
<1>8. CASE UpdatesDone \/ ValidateDaemonSet \/ ValidateWithoutTime
  BY <1>8 DEF UpdatesDone, ValidateDaemonSet, ValidateWithoutTime
<1>9. CASE PatchService \/ checkAPIDaemonset \/ checkAPIService
  BY <1>9 DEF PatchService, checkAPIDaemonset, checkAPIService
<1>10. CASE \E c \in PermissionCalls : GrantFails(c)
  BY <1>10, FaultTyped DEF GrantFails
<1>11. CASE RefreshFails
  BY <1>11, FaultTyped DEF RefreshFails
<1>12. CASE TimeOut \/ Crash
  BY <1>12, FaultTyped DEF TimeOut, Crash
<1>13. CASE JobRetry
  <2>1. seen' \in [DaemonSets -> [observed : Nat, new : BOOLEAN, current : BOOLEAN]]
    BY <1>13 DEF JobRetry, Unseen
  <2>2. expected' \in [DaemonSets -> Nat]
    BY <1>13 DEF JobRetry
  <2> QED
    BY <1>13, <2>1, <2>2 DEF JobRetry
<1> QED
  BY <1>1, <1>2, <1>3, <1>4, <1>6, <1>7, <1>8, <1>9, <1>10, <1>11, <1>12, <1>13
  DEF Step, Failure

LEMMA TypeNext == TypeOK /\ [Next]_vars => TypeOK'
<1> SUFFICES ASSUME TypeOK, [Next]_vars PROVE TypeOK'
  OBVIOUS
<1>1. CASE UNCHANGED vars
  BY <1>1 DEF vars, TypeOK
<1>2. CASE Next
  BY <1>2, ControllerType, ProcessType DEF Next, Controller
<1> QED BY <1>1, <1>2

-----------------------------------------------------------------------------
\* A step of the controller keeps the order of the generations, and moves the
\* pods and the observed generation forward only.
LEMMA ControllerForward ==
  ASSUME TypeOK, GenerationsOK, NEW ds \in DaemonSets,
         \/ ControllerObserves(ds) \/ ControllerWritesStatus(ds) \/ OtherEdit(ds)
         \/ \E n \in Nodes : ControllerReplacesPod(ds, n) \/ PodBecomesReady(ds, n)
  PROVE  /\ GenerationsOK'
         /\ \A e \in DaemonSets : /\ observed'[e] >= observed[e]
                                  /\ \A n \in Nodes : podGen'[e][n] >= podGen[e][n]
         /\ UNCHANGED <<newAt, expected, pc, todo, cur>>
<1> USE DEF TypeOK, status, pods
<1>1. UNCHANGED <<newAt, expected, pc, todo, cur>>
  BY DEF ControllerObserves, ControllerWritesStatus, OtherEdit, ControllerReplacesPod,
         PodBecomesReady
<1>2. CASE ControllerObserves(ds) \/ OtherEdit(ds)
  <2>0. \A e \in DaemonSets : cached[e] \in Nat /\ gen[e] \in Nat /\ cached[e] <= gen[e]
    BY DEF GenerationsOK
  <2>a. ASSUME ControllerObserves(ds)
        PROVE  /\ UNCHANGED <<observed, allUpdated, podGen>>
               /\ \A e \in DaemonSets : /\ cached'[e] >= cached[e]
                                        /\ cached'[e] <= gen'[e]
                                        /\ cached'[e] \in Nat
    BY <2>0, <2>a DEF ControllerObserves
  <2>b. ASSUME OtherEdit(ds)
        PROVE  /\ UNCHANGED <<observed, allUpdated, podGen>>
               /\ \A e \in DaemonSets : /\ cached'[e] >= cached[e]
                                        /\ cached'[e] <= gen'[e]
                                        /\ cached'[e] \in Nat
    BY <2>0, <2>b DEF OtherEdit
  <2>1. /\ UNCHANGED <<observed, allUpdated, podGen>>
        /\ \A e \in DaemonSets : /\ cached'[e] >= cached[e]
                                 /\ cached'[e] <= gen'[e]
                                 /\ cached'[e] \in Nat
    BY <1>2, <2>a, <2>b
  <2>2. \A e \in DaemonSets : \A n \in Nodes : podGen[e][n] \in Nat
    OBVIOUS
  <2> QED
    BY <1>1, <2>1, <2>2 DEF GenerationsOK
<1>3. CASE ControllerWritesStatus(ds)
  <2>1. /\ UNCHANGED <<cached, gen, podGen>>
        /\ \A e \in DaemonSets \ {ds} : observed'[e] = observed[e] /\ allUpdated'[e] = allUpdated[e]
        /\ observed'[ds] = cached[ds] /\ allUpdated'[ds] = Updated(ds)
    BY <1>3 DEF ControllerWritesStatus
  <2>2. \A e \in DaemonSets : /\ observed[e] \in Nat /\ cached[e] \in Nat
                              /\ \A n \in Nodes : podGen[e][n] \in Nat
    OBVIOUS
  <2> HIDE DEF TypeOK
  <2>3. \A e \in DaemonSets : observed'[e] >= observed[e] /\ observed'[e] <= cached[e]
    <3>1. \A e \in DaemonSets : observed[e] <= cached[e]
      BY DEF GenerationsOK
    <3> SUFFICES ASSUME NEW e \in DaemonSets
                 PROVE  observed'[e] >= observed[e] /\ observed'[e] <= cached[e]
      OBVIOUS
    <3>2. observed'[e] = observed[e] \/ observed'[e] = cached[e]
      BY <2>1
    <3>3. observed[e] \in Nat /\ cached[e] \in Nat /\ observed[e] <= cached[e]
      BY <2>2, <3>1
    <3> QED BY <3>2, <3>3
  <2>4. \A e \in DaemonSets : allUpdated'[e] => \A n \in Nodes : podGen[e][n] >= observed'[e]
    <3> SUFFICES ASSUME NEW e \in DaemonSets, allUpdated'[e], NEW n \in Nodes
                 PROVE  podGen[e][n] >= observed'[e]
      OBVIOUS
    <3>1. CASE e = ds
      <4>1. podGen[e][n] = cached[e] /\ observed'[e] = cached[e]
        BY <2>1, <3>1 DEF Updated
      <4>2. cached[e] \in Nat
        BY <2>2
      <4> QED BY <4>1, <4>2
    <3>2. CASE e # ds
      BY <2>1, <3>2 DEF GenerationsOK
    <3> QED BY <3>1, <3>2
  <2>5. \A e \in DaemonSets : \A n \in Nodes : podGen[e][n] >= podGen[e][n]
    BY <2>2
  <2>6. GenerationsOK'
    BY <2>1, <2>3, <2>4 DEF GenerationsOK
  <2> QED
    BY <1>1, <2>1, <2>3, <2>5, <2>6
<1>4. ASSUME NEW n \in Nodes, ControllerReplacesPod(ds, n) \/ PodBecomesReady(ds, n)
      PROVE  /\ GenerationsOK'
             /\ \A e \in DaemonSets : \A m \in Nodes : podGen'[e][m] >= podGen[e][m]
             /\ UNCHANGED observed
  <2>1. UNCHANGED <<cached, gen, observed, allUpdated>>
    BY <1>4 DEF ControllerReplacesPod, PodBecomesReady
  <2>2. \A e \in DaemonSets : \A m \in Nodes : podGen'[e][m] \in {podGen[e][m], cached[e]}
    BY <1>4 DEF ControllerReplacesPod, PodBecomesReady
  <2>3. \A e \in DaemonSets : \A m \in Nodes : podGen[e][m] \in Nat /\ cached[e] \in Nat
    OBVIOUS
  <2>4. \A e \in DaemonSets : \A m \in Nodes :
           podGen'[e][m] >= podGen[e][m] /\ podGen'[e][m] <= cached[e]
    <3> SUFFICES ASSUME NEW e \in DaemonSets, NEW m \in Nodes
                 PROVE  podGen'[e][m] >= podGen[e][m] /\ podGen'[e][m] <= cached[e]
      OBVIOUS
    <3>1. podGen[e][m] <= cached[e]
      BY DEF GenerationsOK
    <3>2. podGen'[e][m] = podGen[e][m] \/ podGen'[e][m] = cached[e]
      BY <2>2
    <3>3. podGen[e][m] \in Nat /\ cached[e] \in Nat
      OBVIOUS
    <3> HIDE DEF TypeOK
    <3> QED BY <3>1, <3>2, <3>3
  <2>5. GenerationsOK'
    BY <2>1, <2>2, <2>3, <2>4 DEF GenerationsOK
  <2> QED BY <2>1, <2>4, <2>5
<1> QED BY <1>1, <1>2, <1>3, <1>4

LEMMA ControllerInv ==
  ASSUME IInv, NEW ds \in DaemonSets,
         \/ ControllerObserves(ds) \/ ControllerWritesStatus(ds) \/ OtherEdit(ds)
         \/ \E n \in Nodes : ControllerReplacesPod(ds, n) \/ PodBecomesReady(ds, n)
  PROVE  GenerationsOK' /\ AwaitedOK' /\ WaitIsSound'
<1>1. /\ GenerationsOK'
      /\ \A e \in DaemonSets : /\ observed'[e] >= observed[e]
                               /\ \A n \in Nodes : podGen'[e][n] >= podGen[e][n]
      /\ UNCHANGED <<newAt, expected, pc, todo, cur>>
  BY ControllerForward DEF IInv
<1>2. /\ \A e \in DaemonSets : /\ observed[e] \in Nat /\ observed'[e] \in Nat
                               /\ newAt[e] \in Nat /\ expected[e] \in Nat
                               /\ \A n \in Nodes : podGen[e][n] \in Nat /\ podGen'[e][n] \in Nat
      /\ todo \subseteq DaemonSets
  <2>1. TypeOK
    BY DEF IInv
  <2>2. observed' \in [DaemonSets -> Nat]
    BY <2>1 DEF TypeOK, status, ControllerObserves, ControllerWritesStatus, OtherEdit,
                ControllerReplacesPod, PodBecomesReady
  <2>3. \A e \in DaemonSets : \A n \in Nodes : podGen'[e][n] \in Nat
    <3>1. podGen' \in [DaemonSets -> [Nodes -> Nat]]
      <4>1. CASE \E n \in Nodes : ControllerReplacesPod(ds, n)
        BY <2>1, <4>1 DEF TypeOK, ControllerReplacesPod
      <4>2. CASE UNCHANGED podGen
        BY <2>1, <4>2 DEF TypeOK
      <4> QED
        BY <4>1, <4>2 DEF pods, ControllerObserves, ControllerWritesStatus, OtherEdit,
                          PodBecomesReady
    <3> QED BY <3>1
  <2> QED BY <2>1, <2>2, <2>3 DEF TypeOK
<1>3. AwaitedOK'
  BY <1>1, <1>2 DEF IInv, AwaitedOK
<1>4. WaitIsSound'
  <2>1. Validated' = Validated /\ Validated \subseteq DaemonSets
    BY <1>1 DEF Validated
  <2> QED
    BY <1>1, <1>2, <2>1 DEF IInv, WaitIsSound, AllNew, IsNew
<1> QED BY <1>1, <1>3, <1>4

LEMMA ProcessInv ==
  ASSUME IInv, Step \/ Failure \/ JobRetry
  PROVE  GenerationsOK' /\ AwaitedOK' /\ WaitIsSound'
<1> USE DEF status, pods
<1>0. TypeOK
  BY DEF IInv
<1>a. UNCHANGED <<observed, allUpdated, cached, podGen>>
  <2>1. CASE Step
    BY <2>1
    DEF Step, preFlightChecks, PermissionsDone, getPXDaemonsets, Grant, SkipUpdate,
        RefusePinned, UpdateDaemonSet, UpdateRefused, AwaitGeneration, UpdatesDone,
        ValidateDaemonSet, ValidateWithoutTime, PatchService, checkAPIDaemonset,
        checkAPIService, Updating
  <2>2. CASE Failure
    BY <2>2 DEF Failure, GrantFails, UpdateReplyLost, UpdateFails, RefreshFails, TimeOut,
                Crash, Updating
  <2>3. CASE JobRetry
    BY <2>3 DEF JobRetry
  <2> QED BY <2>1, <2>2, <2>3
<1>b. \A ds \in DaemonSets : gen'[ds] >= gen[ds] /\ gen'[ds] \in Nat
  <2>1. CASE \E ds \in DaemonSets : StoreImage(ds)
    BY <1>0, <2>1 DEF TypeOK, StoreImage
  <2>2. CASE UNCHANGED gen
    BY <1>0, <2>2 DEF TypeOK
  <2>3. CASE Step
    BY <2>1, <2>2, <2>3
    DEF Step, preFlightChecks, PermissionsDone, getPXDaemonsets, Grant, SkipUpdate,
        RefusePinned, UpdateDaemonSet, UpdateRefused, AwaitGeneration, UpdatesDone,
        ValidateDaemonSet, ValidateWithoutTime, PatchService, checkAPIDaemonset,
        checkAPIService
  <2>4. CASE Failure
    BY <2>1, <2>2, <2>4 DEF Failure, GrantFails, UpdateReplyLost, UpdateFails,
                            RefreshFails, TimeOut, Crash
  <2>5. CASE JobRetry
    BY <2>2, <2>5 DEF JobRetry
  <2> QED BY <2>3, <2>4, <2>5
<1>1. /\ UNCHANGED <<observed, allUpdated, cached, podGen>>
      /\ \A ds \in DaemonSets : gen'[ds] >= gen[ds] /\ gen'[ds] \in Nat
  BY <1>a, <1>b
<1>2. GenerationsOK'
  BY <1>0, <1>1 DEF IInv, GenerationsOK, TypeOK
<1>3. CASE pc' \notin {"wait", "validate", "service", "apiDaemonset", "apiService", "succeeded"}
  BY <1>2, <1>3 DEF AwaitedOK, WaitIsSound, Validated
<1>4. CASE UpdatesDone
  BY <1>2, <1>4 DEF UpdatesDone, AwaitedOK, WaitIsSound, Validated
<1>5. CASE \E ds \in DaemonSets : AwaitGeneration(ds)
  <2>1. PICK ds \in DaemonSets : AwaitGeneration(ds)
    BY <1>5
  <2>2. AwaitedOK'
    BY <1>0, <2>1 DEF AwaitGeneration, AwaitedOK, TypeOK
  <2>3. Validated' = Validated
    BY <2>1 DEF AwaitGeneration, Validated
  <2>4. WaitIsSound'
    BY <2>1, <2>3 DEF IInv, WaitIsSound, AllNew, IsNew, AwaitGeneration, pods
  <2> QED BY <1>2, <2>2, <2>4
<1>6. CASE ValidateDaemonSet
  <2>1. /\ pc = "validate" /\ pc' = "service" /\ cur \in DaemonSets
        /\ observed[cur] >= expected[cur] /\ allUpdated[cur]
        /\ UNCHANGED <<newAt, expected, podGen, todo, cur>>
    BY <1>6 DEF ValidateDaemonSet, Valid, IInv, AwaitedOK
  <2>2. AwaitedOK'
    BY <2>1 DEF AwaitedOK
  <2>3. Validated' \subseteq Validated \cup {cur}
    BY <2>1 DEF Validated
  <2>4. newAt[cur] # 0 /\ expected[cur] >= newAt[cur] => AllNew(cur)
    <3>1. \A n \in Nodes : podGen[cur][n] >= observed[cur]
      BY <2>1 DEF IInv, GenerationsOK
    <3>2. /\ newAt[cur] \in Nat /\ expected[cur] \in Nat /\ observed[cur] \in Nat
          /\ \A n \in Nodes : podGen[cur][n] \in Nat
      BY <1>0, <2>1 DEF TypeOK
    <3> QED
      BY <2>1, <3>1, <3>2 DEF AllNew, IsNew
  <2>5. WaitIsSound'
    BY <2>1, <2>3, <2>4 DEF IInv, WaitIsSound, AllNew, IsNew
  <2> QED BY <1>2, <2>2, <2>5
<1>7. CASE PatchService \/ checkAPIDaemonset \/ checkAPIService
  <2>1. /\ pc \in {"service", "apiDaemonset", "apiService"}
        /\ pc' \in {"apiDaemonset", "apiService", "wait", "succeeded"}
        /\ pc' = "succeeded" => todo = {}
        /\ UNCHANGED <<newAt, expected, podGen, todo, cur>>
    BY <1>7 DEF PatchService, checkAPIDaemonset, checkAPIService
  <2>2. AwaitedOK'
    BY <2>1 DEF IInv, AwaitedOK
  <2>3. Validated' \subseteq Validated
    BY <2>1 DEF Validated
  <2>4. WaitIsSound'
    BY <2>1, <2>3 DEF IInv, WaitIsSound, AllNew, IsNew
  <2> QED BY <1>2, <2>2, <2>4
<1>8. CASE ~UpdatesDone /\ ~ValidateDaemonSet
           /\ ~(\E ds \in DaemonSets : AwaitGeneration(ds))
           /\ ~(PatchService \/ checkAPIDaemonset \/ checkAPIService)
  <2>1. pc' \notin {"wait", "validate", "service", "apiDaemonset", "apiService", "succeeded"}
    BY <1>8
    DEF Step, Failure, JobRetry, preFlightChecks, PermissionsDone, getPXDaemonsets, Grant,
        SkipUpdate, RefusePinned, UpdateDaemonSet, UpdateRefused,
        ValidateWithoutTime, GrantFails, UpdateReplyLost, UpdateFails,
        RefreshFails, TimeOut, Crash, Updating
  <2> QED BY <1>3, <2>1
<1> QED BY <1>4, <1>5, <1>6, <1>7, <1>8

LEMMA IInvNext == IInv /\ [Next]_vars => IInv'
<1> SUFFICES ASSUME IInv, [Next]_vars PROVE GenerationsOK' /\ AwaitedOK' /\ WaitIsSound'
  BY TypeNext DEF IInv
<1>1. CASE UNCHANGED vars
  BY <1>1 DEF vars, IInv, GenerationsOK, AwaitedOK, WaitIsSound, Validated, AllNew, IsNew
<1>2. CASE Next
  BY <1>2, ControllerInv, ProcessInv DEF Next, Controller
<1> QED BY <1>1, <1>2

(***************************************************************************)
(* All values of the rollout keep their types.                             *)
(***************************************************************************)
THEOREM RolloutTypeCorrect == Spec => []TypeOK
<1>1. IInv => TypeOK
  BY DEF IInv
<1> QED BY <1>1, InitIInv, IInvNext, PTL DEF Spec

(***************************************************************************)
(* Waiting for the observed generation and then validating the status is   *)
(* enough, whatever the controller and the edits of others do: every pod   *)
(* of a validated DaemonSet runs the new image, provided the generation    *)
(* waited for is not older than the one that brought the image.            *)
(***************************************************************************)
THEOREM TheWaitIsSound == Spec => []WaitIsSound
<1>1. IInv => WaitIsSound
  BY DEF IInv
<1> QED BY <1>1, InitIInv, IInvNext, PTL DEF Spec

-----------------------------------------------------------------------------
\* An attempt that reaches the DaemonSets has made all permission calls.
PermissionsInv ==
    /\ calls \subseteq granted
    /\ pc \in {"list", "update"} => calls = PermissionCalls
    /\ PermissionsBeforePods

LEMMA InitPermissions == Init => PermissionsInv
  BY DEF Init, PermissionsInv, PermissionsBeforePods

LEMMA PermissionsNext == TypeOK /\ PermissionsInv /\ [Next]_vars => PermissionsInv'
<1> SUFFICES ASSUME TypeOK, PermissionsInv, [Next]_vars PROVE PermissionsInv'
  OBVIOUS
<1> USE DEF PermissionsInv, PermissionsBeforePods, cluster
<1>1. ASSUME UNCHANGED <<calls, granted, newAt>>,
             pc' \in {"list", "update"} => pc \in {"list", "update"}
      PROVE  PermissionsInv'
  BY <1>1
<1>2. CASE UNCHANGED vars
  BY <1>1, <1>2 DEF vars
<1>3. CASE Controller \/ \E ds \in DaemonSets : OtherEdit(ds)
  BY <1>1, <1>3 DEF Controller, OtherEdit, ControllerObserves, ControllerWritesStatus,
                    ControllerReplacesPod, PodBecomesReady
<1>4. CASE preFlightChecks \/ UpdatesDone \/ ValidateDaemonSet \/ ValidateWithoutTime
           \/ getPXDaemonsets
  BY <1>1, <1>4 DEF preFlightChecks, UpdatesDone, ValidateDaemonSet, ValidateWithoutTime,
                    getPXDaemonsets
<1>5. CASE \E ds \in DaemonSets : SkipUpdate(ds) \/ RefusePinned(ds) \/ AwaitGeneration(ds)
                                  \/ UpdateRefused(ds) \/ UpdateFails(ds)
  BY <1>1, <1>5 DEF SkipUpdate, RefusePinned, AwaitGeneration, UpdateRefused, UpdateFails,
                    Updating
<1>6. CASE PatchService \/ checkAPIDaemonset \/ checkAPIService \/ RefreshFails
           \/ TimeOut \/ Crash
  BY <1>1, <1>6 DEF PatchService, checkAPIDaemonset, checkAPIService, RefreshFails,
                    TimeOut, Crash
<1>7. CASE PermissionsDone
  BY <1>7 DEF PermissionsDone
<1>8. CASE \E c \in PermissionCalls : Grant(c) \/ GrantFails(c)
  <2>1. /\ granted \subseteq granted' /\ granted' \subseteq PermissionCalls
        /\ calls' \subseteq granted' /\ UNCHANGED newAt
        /\ pc' \notin {"list", "update"}
    BY <1>8 DEF Grant, GrantFails, TypeOK
  <2> QED BY <2>1
<1>9. CASE \E ds \in DaemonSets : UpdateDaemonSet(ds) \/ UpdateReplyLost(ds)
  <2>1. pc = "update" /\ UNCHANGED <<calls, granted>>
    BY <1>9 DEF UpdateDaemonSet, UpdateReplyLost, Updating
  <2>2. granted = PermissionCalls
    BY <2>1 DEF TypeOK
  <2> QED
    BY <2>1, <2>2
<1>10. CASE JobRetry
  BY <1>10 DEF JobRetry
<1> QED
  BY <1>2, <1>3, <1>4, <1>5, <1>6, <1>7, <1>8, <1>9, <1>10 DEF Next, Step, Failure

(***************************************************************************)
(* The permissions of the new version are in place before any DaemonSet    *)
(* gets its image, over all failed and repeated attempts.                  *)
(***************************************************************************)
THEOREM PermissionsComeFirst == Spec => []PermissionsBeforePods
<1>1. PermissionsInv => PermissionsBeforePods
  BY DEF PermissionsInv
<1> QED
  BY <1>1, RolloutTypeCorrect, InitPermissions, PermissionsNext, PTL DEF Spec

-----------------------------------------------------------------------------
\* No attempt can succeed: an image is pinned, or there is no time to wait.
Doomed == pinned # {} \/ readyTimeout = 0

Refreshing == {"service", "apiDaemonset", "apiService"}
Waiting == {"wait", "validate", "succeeded"} \cup Refreshing

\* A doomed attempt does not get past the update of a pinned DaemonSet or
\* past its first validation.
DoomedOK ==
    /\ pinned # {} => pc \notin Waiting
    /\ pinned # {} /\ pc = "update" => pinned \subseteq todo
    /\ readyTimeout = 0 => pc \notin Refreshing \cup {"succeeded"}

\* What the refresh has done when it reaches each of its calls.
RefreshOK ==
    /\ pc \in {"apiDaemonset", "apiService", "succeeded"} => service = "patched"
    /\ pc \in {"apiService", "succeeded"} => apiDS
    /\ pc = "succeeded" => apiService = "current"

\* A DaemonSet nobody has written to since the upgrade began.
Untouched(ds) ==
    /\ newAt[ds] = 0 /\ gen[ds] = 1 /\ cached[ds] = 1 /\ observed[ds] = 1
    /\ allUpdated[ds] /\ allReady[ds]
    /\ \A n \in Nodes : podGen[ds][n] = 1 /\ podReady[ds][n]

\* A DaemonSet that this attempt has updated, once.
UpdatedOnce(ds) == newAt[ds] = 2 /\ gen[ds] = 2 /\ expected[ds] = 2

\* The listed copy of a DaemonSet that is still to be updated is current.
ListedOK(ds) == seen[ds].observed = 1 /\ ~seen[ds].new /\ seen[ds].current

\* Without faults, edits and obstacles there is one attempt, it updates every
\* DaemonSet once, and validated DaemonSets stay ready.
SmoothOK ==
    /\ pc \notin {"failed", "crashed"}
    /\ pc \in {"preflight", "permissions", "list"} => \A ds \in DaemonSets : Untouched(ds)
    /\ pc = "update" => \A ds \in DaemonSets :
          IF ds \in todo THEN Untouched(ds) /\ ListedOK(ds) ELSE UpdatedOnce(ds)
    /\ pc \in Waiting => \A ds \in DaemonSets : UpdatedOnce(ds)
    /\ \A ds \in Validated : Ready(ds)

SmoothInv == faults = 0 /\ edits = 0 /\ ~Doomed => SmoothOK

LEMMA InitClean == Init => DoomedOK /\ RefreshOK /\ SmoothInv
  BY DEF Init, DoomedOK, RefreshOK, SmoothInv, SmoothOK, Waiting, Refreshing, Untouched,
         Validated

LEMMA DoomedNext == TypeOK /\ DoomedOK /\ [Next]_vars => DoomedOK'
<1> SUFFICES ASSUME TypeOK, DoomedOK, [Next]_vars PROVE DoomedOK'
  OBVIOUS
<1>0. UNCHANGED pinned /\ readyTimeout' = readyTimeout
  BY DEF Next, vars, given, readyTimeout
<1> USE DEF DoomedOK, Waiting, Refreshing
<1>1. ASSUME UNCHANGED <<pc, todo>> PROVE DoomedOK'
  BY <1>0, <1>1
<1>2. ASSUME pc' \notin {"update"} \cup Waiting PROVE DoomedOK'
  BY <1>0, <1>2
<1>3. CASE UNCHANGED vars
  BY <1>1, <1>3 DEF vars
<1>4. CASE Controller \/ \E ds \in DaemonSets : OtherEdit(ds)
  BY <1>1, <1>4 DEF Controller, OtherEdit, ControllerObserves, ControllerWritesStatus,
                    ControllerReplacesPod, PodBecomesReady
<1>5. CASE preFlightChecks \/ PermissionsDone \/ ValidateWithoutTime \/ JobRetry
           \/ \E c \in PermissionCalls : Grant(c)
  BY <1>1, <1>2, <1>5 DEF preFlightChecks, PermissionsDone, ValidateWithoutTime, JobRetry,
                          Grant
<1>6. CASE \E ds \in DaemonSets : RefusePinned(ds) \/ UpdateRefused(ds)
  BY <1>2, <1>6 DEF RefusePinned, UpdateRefused
<1>7. CASE Failure
  BY <1>2, <1>7 DEF Failure, GrantFails, UpdateReplyLost, UpdateFails, RefreshFails,
                    TimeOut, Crash
<1>8. CASE getPXDaemonsets
  BY <1>0, <1>8 DEF getPXDaemonsets, TypeOK
<1>9. CASE \E ds \in DaemonSets : SkipUpdate(ds) \/ UpdateDaemonSet(ds)
  <2>1. PICK ds \in DaemonSets : SkipUpdate(ds) \/ UpdateDaemonSet(ds)
    BY <1>9
  <2>2. pc = "update" /\ UNCHANGED pc /\ ds \notin pinned /\ todo' = todo \ {ds}
    BY <2>1 DEF SkipUpdate, UpdateDaemonSet, Updating
  <2> QED BY <1>0, <2>2
<1>10. CASE UpdatesDone
  BY <1>0, <1>10 DEF UpdatesDone
<1>11. CASE \E ds \in DaemonSets : AwaitGeneration(ds)
  BY <1>0, <1>11 DEF AwaitGeneration
<1>12. CASE ValidateDaemonSet
  <2>1. readyTimeout # 0 /\ pc = "validate" /\ pc' = "service"
    BY <1>12 DEF ValidateDaemonSet
  <2> QED BY <1>0, <2>1
<1>13. CASE PatchService \/ checkAPIDaemonset \/ checkAPIService
  <2>1. pc \in Refreshing /\ pc' \in Waiting
    BY <1>13 DEF PatchService, checkAPIDaemonset, checkAPIService
  <2> QED BY <1>0, <2>1
<1> QED
  BY <1>3, <1>4, <1>5, <1>6, <1>7, <1>8, <1>9, <1>10, <1>11, <1>12, <1>13
  DEF Next, Step

LEMMA RefreshNext == RefreshOK /\ [Next]_vars => RefreshOK'
<1> SUFFICES ASSUME RefreshOK, [Next]_vars PROVE RefreshOK'
  OBVIOUS
<1> USE DEF RefreshOK, cluster
<1>1. ASSUME UNCHANGED <<pc, service, apiDS, apiService>> PROVE RefreshOK'
  BY <1>1
<1>2. ASSUME pc' \notin {"apiDaemonset", "apiService", "succeeded"} PROVE RefreshOK'
  BY <1>2
<1>3. CASE UNCHANGED vars
  BY <1>1, <1>3 DEF vars
<1>4. CASE Controller \/ \E ds \in DaemonSets : OtherEdit(ds)
  BY <1>1, <1>4 DEF Controller, OtherEdit, ControllerObserves, ControllerWritesStatus,
                    ControllerReplacesPod, PodBecomesReady
<1>5. CASE PatchService \/ checkAPIDaemonset \/ checkAPIService
  BY <1>5 DEF PatchService, checkAPIDaemonset, checkAPIService
<1>6. CASE Failure \/ JobRetry
  BY <1>2, <1>6 DEF Failure, GrantFails, UpdateReplyLost, UpdateFails, RefreshFails,
                    TimeOut, Crash, JobRetry
<1>7. CASE Step /\ ~(PatchService \/ checkAPIDaemonset \/ checkAPIService)
  BY <1>1, <1>2, <1>7
  DEF Step, preFlightChecks, PermissionsDone, getPXDaemonsets, Grant, SkipUpdate,
      RefusePinned, UpdateDaemonSet, UpdateRefused, AwaitGeneration, UpdatesDone,
      ValidateDaemonSet, ValidateWithoutTime, Updating
<1> QED BY <1>3, <1>4, <1>5, <1>6, <1>7 DEF Next

\* The controller has nothing to do for an untouched DaemonSet, and does not
\* make a validated one unready.
LEMMA SmoothController ==
  ASSUME IInv, ~Doomed, SmoothOK, Controller
  PROVE  SmoothOK'
<1> PICK ds \in DaemonSets :
           \/ ControllerObserves(ds) \/ ControllerWritesStatus(ds)
           \/ \E n \in Nodes : ControllerReplacesPod(ds, n) \/ PodBecomesReady(ds, n)
  BY DEF Controller
<1>0. TypeOK
  BY DEF IInv
<1>1. ~Untouched(ds)
  <2> SUFFICES ASSUME Untouched(ds) PROVE FALSE
    OBVIOUS
  <2> USE DEF Untouched
  <2>1. CASE ControllerObserves(ds)
    BY <2>1 DEF ControllerObserves
  <2>2. CASE ControllerWritesStatus(ds)
    <3>1. Updated(ds) /\ Ready(ds)
      BY DEF Updated, Ready
    <3>2. allUpdated[ds] = Updated(ds) /\ allReady[ds] = Ready(ds)
      <4>1. /\ allUpdated[ds] \in BOOLEAN /\ allReady[ds] \in BOOLEAN
            /\ Updated(ds) \in BOOLEAN /\ Ready(ds) \in BOOLEAN
        BY <1>0 DEF TypeOK, Updated, Ready
      <4> QED BY <3>1, <4>1
    <3> QED BY <2>2, <3>2 DEF ControllerWritesStatus
  <2>3. CASE \E n \in Nodes : ControllerReplacesPod(ds, n)
    BY <2>3 DEF ControllerReplacesPod
  <2>4. CASE \E n \in Nodes : PodBecomesReady(ds, n)
    BY <2>4 DEF PodBecomesReady
  <2> QED BY <2>1, <2>2, <2>3, <2>4
<1>2. UNCHANGED <<gen, newAt, expected, pc, todo, cur>>
  BY DEF ControllerObserves, ControllerWritesStatus, ControllerReplacesPod, PodBecomesReady
<1>3. \A e \in DaemonSets \ {ds} :
         /\ cached'[e] = cached[e] /\ observed'[e] = observed[e]
         /\ allUpdated'[e] = allUpdated[e] /\ allReady'[e] = allReady[e]
         /\ podGen'[e] = podGen[e] /\ podReady'[e] = podReady[e] /\ seen'[e] = seen[e]
  <2> USE <1>0 DEF TypeOK, status, pods
  <2>1. CASE ControllerObserves(ds)
    BY <2>1 DEF ControllerObserves
  <2>2. CASE ControllerWritesStatus(ds)
    BY <2>2 DEF ControllerWritesStatus, Touch
  <2>3. CASE \E n \in Nodes : ControllerReplacesPod(ds, n)
    BY <2>3 DEF ControllerReplacesPod
  <2>4. CASE \E n \in Nodes : PodBecomesReady(ds, n)
    BY <2>4 DEF PodBecomesReady
  <2> QED BY <2>1, <2>2, <2>3, <2>4
<1>4. \A e \in DaemonSets : Untouched(e) => Untouched(e)'
  BY <1>1, <1>2, <1>3 DEF Untouched
<1>5. \A e \in DaemonSets : Untouched(e) /\ ListedOK(e) => ListedOK(e)'
  BY <1>1, <1>3 DEF ListedOK
<1>6. \A e \in DaemonSets : UpdatedOnce(e) => UpdatedOnce(e)'
  BY <1>2 DEF UpdatedOnce
<1>7. \A e \in Validated : Ready(e)'
  <2> SUFFICES ASSUME NEW e \in Validated PROVE Ready(e)'
    OBVIOUS
  <2>1. e \in DaemonSets /\ UpdatedOnce(e) /\ Ready(e)
    BY DEF SmoothOK, Validated, Waiting, Refreshing
  <2>2. CASE e # ds
    BY <1>3, <2>1, <2>2 DEF Ready
  <2>3. CASE e = ds
    <3>1. \A n \in Nodes : podGen[e][n] = cached[e]
      <4>1. AllNew(e)
        BY <2>1 DEF IInv, WaitIsSound, UpdatedOnce
      <4>2. \A n \in Nodes : podGen[e][n] >= 2 /\ podGen[e][n] <= cached[e] /\ cached[e] <= 2
        BY <2>1, <4>1 DEF AllNew, IsNew, UpdatedOnce, IInv, GenerationsOK
      <4>3. \A n \in Nodes : podGen[e][n] \in Nat /\ cached[e] \in Nat
        BY <1>0, <2>1 DEF TypeOK
      <4> QED BY <4>2, <4>3
    <3>2. CASE UNCHANGED podReady
      BY <2>1, <3>2 DEF Ready
    <3>3. CASE \E n \in Nodes : ControllerReplacesPod(ds, n)
      BY <2>3, <3>1, <3>3 DEF ControllerReplacesPod
    <3>4. CASE \E n \in Nodes : PodBecomesReady(ds, n)
      BY <2>1, <2>3, <3>4 DEF PodBecomesReady, Ready
    <3> QED
      BY <3>2, <3>3, <3>4 DEF ControllerObserves, ControllerWritesStatus, pods
  <2> QED BY <2>2, <2>3
<1>8. Validated' = Validated
  BY <1>2 DEF Validated
<1> QED
  BY <1>2, <1>4, <1>5, <1>6, <1>7, <1>8 DEF SmoothOK

\* Every step of the process keeps a smooth attempt smooth.
LEMMA SmoothProcess ==
  ASSUME IInv, DoomedOK, ~Doomed, SmoothOK, Step
  PROVE  SmoothOK'
<1> USE DEF status, pods, Waiting, Refreshing
<1>0. TypeOK
  BY DEF IInv
<1>a. UNCHANGED <<observed, allUpdated, allReady, cached, podGen, podReady>>
  BY DEF Step, preFlightChecks, PermissionsDone, getPXDaemonsets, Grant, SkipUpdate,
         RefusePinned, UpdateDaemonSet, UpdateRefused, AwaitGeneration, UpdatesDone,
         ValidateDaemonSet, ValidateWithoutTime, PatchService, checkAPIDaemonset,
         checkAPIService, Updating
<1>b. ASSUME UNCHANGED <<gen, newAt>>
      PROVE  \A ds \in DaemonSets : Untouched(ds) => Untouched(ds)'
  BY <1>a, <1>b DEF Untouched
<1>c. ASSUME UNCHANGED <<gen, newAt, expected>>
      PROVE  \A ds \in DaemonSets : UpdatedOnce(ds) => UpdatedOnce(ds)'
  BY <1>c DEF UpdatedOnce
<1>d. \A ds \in DaemonSets : Ready(ds) => Ready(ds)'
  BY <1>a DEF Ready
<1>1. CASE preFlightChecks \/ PermissionsDone \/ \E c \in PermissionCalls : Grant(c)
  <2>1. /\ pc \in {"preflight", "permissions"} /\ pc' \in {"permissions", "list"}
        /\ UNCHANGED <<gen, newAt>>
    BY <1>1 DEF preFlightChecks, PermissionsDone, Grant
  <2> QED BY <1>b, <2>1 DEF SmoothOK, Validated
<1>2. CASE getPXDaemonsets
  <2>1. \A ds \in DaemonSets : ListedOK(ds)'
    <3>1. \A ds \in DaemonSets : Untouched(ds)
      BY <1>2 DEF getPXDaemonsets, SmoothOK
    <3> QED
      BY <1>2, <3>1 DEF getPXDaemonsets, ListedOK, Untouched
  <2> QED
    BY <1>2, <1>b, <2>1 DEF getPXDaemonsets, SmoothOK, Validated
<1>3. ASSUME NEW ds \in DaemonSets, SkipUpdate(ds) \/ RefusePinned(ds) \/ UpdateRefused(ds)
      PROVE  FALSE
  <2>1. pc = "update" /\ ds \in todo
    BY <1>3 DEF SkipUpdate, RefusePinned, UpdateRefused, Updating
  <2>2. ListedOK(ds) /\ pinned = {}
    BY <2>1 DEF SmoothOK, Doomed
  <2> QED
    BY <1>3, <2>2 DEF SkipUpdate, RefusePinned, UpdateRefused, ListedOK
<1>4. ASSUME NEW ds \in DaemonSets, UpdateDaemonSet(ds) PROVE SmoothOK'
  <2>1. pc = "update" /\ pc' = "update" /\ ds \in todo /\ todo' = todo \ {ds}
    BY <1>4 DEF UpdateDaemonSet, Updating
  <2>2. Untouched(ds) /\ ListedOK(ds)
    BY <2>1 DEF SmoothOK
  <2>3. UpdatedOnce(ds)'
    BY <1>0, <1>4, <2>2 DEF UpdateDaemonSet, Updating, StoreImage, Untouched, ListedOK,
                            UpdatedOnce, TypeOK
  <2>4. \A e \in DaemonSets \ {ds} :
           /\ gen'[e] = gen[e] /\ newAt'[e] = newAt[e] /\ expected'[e] = expected[e]
           /\ seen'[e] = seen[e]
    BY <1>0, <1>4 DEF UpdateDaemonSet, Updating, StoreImage, Touch, TypeOK
  <2>5. \A e \in DaemonSets \ {ds} :
           /\ Untouched(e) => Untouched(e)'
           /\ ListedOK(e) => ListedOK(e)'
           /\ UpdatedOnce(e) => UpdatedOnce(e)'
    BY <1>a, <2>4 DEF Untouched, ListedOK, UpdatedOnce
  <2> QED
    BY <2>1, <2>3, <2>5 DEF SmoothOK, Validated
<1>5. CASE UpdatesDone
  <2>1. \A ds \in DaemonSets : UpdatedOnce(ds)'
    BY <1>5, <1>c DEF UpdatesDone, SmoothOK
  <2> QED
    BY <1>5, <2>1 DEF UpdatesDone, SmoothOK, Validated
<1>6. CASE \E ds \in DaemonSets : AwaitGeneration(ds)
  <2>1. PICK ds \in DaemonSets : AwaitGeneration(ds)
    BY <1>6
  <2>2. /\ pc = "wait" /\ pc' = "validate" /\ UNCHANGED <<gen, newAt, expected>>
        /\ Validated' = Validated
    BY <2>1 DEF AwaitGeneration, Validated
  <2> QED BY <1>c, <1>d, <2>2 DEF SmoothOK, Validated
<1>7. CASE ValidateDaemonSet
  <2>1. /\ pc = "validate" /\ pc' = "service" /\ UNCHANGED <<gen, newAt, expected>>
        /\ Ready(cur) /\ Validated' \subseteq Validated \cup {cur} /\ cur \in DaemonSets
    BY <1>7 DEF ValidateDaemonSet, Valid, Validated, IInv, AwaitedOK
  <2>2. \A ds \in Validated' : Ready(ds)'
    BY <1>d, <2>1 DEF SmoothOK, Validated
  <2> QED BY <1>c, <2>1, <2>2 DEF SmoothOK
<1>8. CASE ValidateWithoutTime
  BY <1>8 DEF ValidateWithoutTime, Doomed
<1>9. CASE PatchService \/ checkAPIDaemonset \/ checkAPIService
  <2>1. /\ pc \in Refreshing /\ pc' \in {"apiDaemonset", "apiService", "wait", "succeeded"}
        /\ pc' = "succeeded" => todo = {}
        /\ UNCHANGED <<gen, newAt, expected, todo>>
    BY <1>9 DEF PatchService, checkAPIDaemonset, checkAPIService
  <2>2. Validated' \subseteq Validated
    BY <2>1 DEF Validated
  <2>3. \A ds \in Validated' : Ready(ds)'
    BY <1>d, <2>2 DEF SmoothOK, Validated
  <2> QED BY <1>c, <2>1, <2>3 DEF SmoothOK
<1> HIDE DEF status, pods, Waiting, Refreshing
<1> QED
  BY <1>1, <1>2, <1>3, <1>4, <1>5, <1>6, <1>7, <1>8, <1>9 DEF Step

LEMMA SmoothNext ==
  IInv /\ DoomedOK /\ SmoothInv /\ [Next]_vars => SmoothInv'
<1> SUFFICES ASSUME IInv, DoomedOK, SmoothInv, [Next]_vars,
                    faults' = 0, edits' = 0, ~Doomed'
             PROVE  SmoothOK'
  BY DEF SmoothInv
<1>0. faults \in Nat /\ edits \in Nat
  BY DEF IInv, TypeOK
<1>1. CASE UNCHANGED vars
  BY <1>1 DEF vars, SmoothInv, SmoothOK, Doomed, readyTimeout, Untouched, UpdatedOnce,
              ListedOK, Validated, Ready
<1>2. CASE Next
  <2>1. ~Doomed
    BY <1>2 DEF Next, given, Doomed, readyTimeout
  <2>2. CASE Failure
    <3>1. Fault
      BY <2>2 DEF Failure, GrantFails, UpdateReplyLost, UpdateFails, RefreshFails, TimeOut,
                  Crash
    <3> QED BY <1>0, <3>1 DEF Fault
  <2>3. CASE \E ds \in DaemonSets : OtherEdit(ds)
    BY <1>0, <2>3 DEF OtherEdit
  <2>4. ASSUME Controller \/ Step \/ JobRetry PROVE UNCHANGED <<faults, edits>>
    <3>1. CASE Controller
      BY <3>1 DEF Controller, ControllerObserves, ControllerWritesStatus,
                  ControllerReplacesPod, PodBecomesReady
    <3>2. CASE Step
      BY <3>2
      DEF Step, preFlightChecks, PermissionsDone, getPXDaemonsets, Grant, SkipUpdate,
          RefusePinned, UpdateDaemonSet, UpdateRefused, AwaitGeneration, UpdatesDone,
          ValidateDaemonSet, ValidateWithoutTime, PatchService, checkAPIDaemonset,
          checkAPIService, Updating
    <3>3. CASE JobRetry
      BY <3>3 DEF JobRetry
    <3> QED BY <2>4, <3>1, <3>2, <3>3
  <2>5. CASE Controller \/ Step \/ JobRetry
    <3>1. SmoothOK
      BY <2>1, <2>4, <2>5 DEF SmoothInv
    <3>2. ~JobRetry
      BY <3>1 DEF SmoothOK, JobRetry
    <3> QED BY <2>1, <2>5, <3>1, <3>2, SmoothController, SmoothProcess
  <2> QED BY <1>2, <2>2, <2>3, <2>5 DEF Next
<1> QED BY <1>1, <1>2

(***************************************************************************)
(* "waits till all replicas are ready" holds of every upgrade in which no  *)
(* call failed and nobody else edited a DaemonSet: when upgradePX returns  *)
(* nil, every pod runs the new image and is ready, and the services and    *)
(* the API DaemonSet are refreshed, however far the controller lags.       *)
(***************************************************************************)
THEOREM CleanUpgradeIsComplete == Spec => []CleanUpgradeMeansAllNew
<1>1. IInv /\ DoomedOK /\ RefreshOK /\ SmoothInv => CleanUpgradeMeansAllNew
  <2> SUFFICES ASSUME IInv, DoomedOK, RefreshOK, SmoothInv,
                      faults = 0, edits = 0, pc = "succeeded"
               PROVE  UpgradedMeansAllNew
    BY DEF CleanUpgradeMeansAllNew, UpgradedMeansAllNew
  <2>1. ~Doomed
    BY DEF DoomedOK, Doomed, Waiting, Refreshing
  <2>2. SmoothOK /\ Validated = DaemonSets
    BY <2>1 DEF SmoothInv, Validated
  <2>3. \A ds \in DaemonSets : UpdatedOnce(ds) /\ Ready(ds)
    BY <2>2 DEF SmoothOK, Waiting, Refreshing
  <2>4. \A ds \in DaemonSets : AllNew(ds)
    BY <2>2, <2>3 DEF IInv, WaitIsSound, UpdatedOnce
  <2> QED
    BY <2>3, <2>4 DEF UpgradedMeansAllNew, RefreshOK
<1>2. IInv => TypeOK
  BY DEF IInv
<1> QED
  BY <1>1, <1>2, InitIInv, IInvNext, InitClean, DoomedNext, RefreshNext, SmoothNext, PTL
  DEF Spec

(***************************************************************************)
(* An upgrade with a pinned image, or with no time to validate a DaemonSet *)
(* (one node, or a timeout per node of 0), never succeeds, whatever else   *)
(* happens and however often the Job retries it.                           *)
(***************************************************************************)
THEOREM DoomedNeverSucceeds == Spec => [](Doomed => pc # "succeeded")
<1>1. DoomedOK => (Doomed => pc # "succeeded")
  BY DEF DoomedOK, Doomed, Waiting, Refreshing
<1> QED
  BY <1>1, RolloutTypeCorrect, InitClean, DoomedNext, PTL DEF Spec

-----------------------------------------------------------------------------
(***************************************************************************)
(* The refinement of RolloutContract.  A listing never shows an image that *)
(* is not there, a current one shows the image that is, and the DaemonSets *)
(* that are not to be updated any more have it.                            *)
(***************************************************************************)
HasImage(ds) == newAt[ds] # 0

ListingOK ==
    /\ \A ds \in DaemonSets : /\ seen[ds].new => HasImage(ds)
                              /\ seen[ds].current /\ HasImage(ds) => seen[ds].new
    /\ pc = "update" => \A ds \in DaemonSets \ todo : HasImage(ds)
    /\ pc \in Waiting => \A ds \in DaemonSets : HasImage(ds)

LEMMA InitListing == Init => ListingOK
  BY DEF Init, ListingOK, HasImage, Unseen, Waiting, Refreshing

LEMMA ListingNext == TypeOK /\ ListingOK /\ [Next]_vars => ListingOK'
<1> SUFFICES ASSUME TypeOK, ListingOK, [Next]_vars PROVE ListingOK'
  OBVIOUS
<1> USE DEF ListingOK, HasImage, Waiting, Refreshing
<1>0. seen \in [DaemonSets -> [observed : Nat, new : BOOLEAN, current : BOOLEAN]]
  BY DEF TypeOK
<1>1. ASSUME UNCHANGED <<newAt, seen, pc, todo>> PROVE ListingOK'
  BY <1>1
<1>2. ASSUME UNCHANGED <<newAt, seen>>, pc' \notin {"update"} \cup Waiting PROVE ListingOK'
  BY <1>2
<1>3. ASSUME NEW ds \in DaemonSets, Touch(ds), UNCHANGED <<newAt, pc, todo>> PROVE ListingOK'
  <2>1. \A e \in DaemonSets : seen'[e].new = seen[e].new /\ (seen'[e].current => seen[e].current)
    BY <1>0, <1>3 DEF Touch
  <2> QED BY <1>3, <2>1
<1>4. CASE UNCHANGED vars
  BY <1>1, <1>4 DEF vars
<1>5. CASE Controller \/ \E ds \in DaemonSets : OtherEdit(ds)
  BY <1>1, <1>3, <1>5 DEF Controller, OtherEdit, ControllerObserves, ControllerWritesStatus,
                          ControllerReplacesPod, PodBecomesReady
<1>6. CASE preFlightChecks \/ PermissionsDone \/ ValidateWithoutTime
           \/ \E c \in PermissionCalls : Grant(c) \/ GrantFails(c)
  BY <1>2, <1>6 DEF preFlightChecks, PermissionsDone, ValidateWithoutTime, Grant, GrantFails
<1>7. CASE \E ds \in DaemonSets : RefusePinned(ds) \/ UpdateRefused(ds) \/ UpdateFails(ds)
  BY <1>2, <1>7 DEF RefusePinned, UpdateRefused, UpdateFails
<1>8. CASE RefreshFails \/ TimeOut \/ Crash
  BY <1>2, <1>8 DEF RefreshFails, TimeOut, Crash
<1>9. CASE getPXDaemonsets
  <2>1. \A ds \in DaemonSets : seen'[ds].new = (newAt[ds] # 0)
    BY <1>9 DEF getPXDaemonsets
  <2>2. UNCHANGED newAt /\ pc' = "update" /\ todo' = DaemonSets
    BY <1>9 DEF getPXDaemonsets
  <2> QED BY <2>1, <2>2
<1>10. CASE \E ds \in DaemonSets : SkipUpdate(ds)
  BY <1>10 DEF SkipUpdate
<1>11. ASSUME NEW ds \in DaemonSets, StoreImage(ds), pc' \in {"list", "update"},
              todo \ {ds} \subseteq todo', pc = "update"
       PROVE  ListingOK'
  <2>1. \A e \in DaemonSets : newAt'[e] = IF e = ds THEN gen[ds] + 1 ELSE newAt[e]
    BY <1>11 DEF StoreImage, TypeOK
  <2>2. gen[ds] + 1 # 0
    BY DEF TypeOK
  <2>3. \A e \in DaemonSets : /\ seen'[e].new = seen[e].new
                              /\ seen'[e].current = IF e = ds THEN FALSE ELSE seen[e].current
    BY <1>0, <1>11 DEF StoreImage, Touch
  <2> QED BY <1>11, <2>1, <2>2, <2>3
<1>12. CASE \E ds \in DaemonSets : UpdateDaemonSet(ds) \/ UpdateReplyLost(ds)
  BY <1>11, <1>12 DEF UpdateDaemonSet, UpdateReplyLost, Updating
<1>13. CASE UpdatesDone
  BY <1>13 DEF UpdatesDone
<1>14. CASE ValidateDaemonSet \/ PatchService \/ checkAPIDaemonset \/ checkAPIService
            \/ \E ds \in DaemonSets : AwaitGeneration(ds)
  <2>1. pc \in Waiting /\ pc' \in Waiting /\ UNCHANGED <<newAt, seen>>
    BY <1>14 DEF ValidateDaemonSet, PatchService, checkAPIDaemonset, checkAPIService,
                 AwaitGeneration
  <2> QED BY <2>1
<1>15. CASE JobRetry
  BY <1>15 DEF JobRetry, Unseen
<1> QED
  BY <1>4, <1>5, <1>6, <1>7, <1>8, <1>9, <1>10, <1>12, <1>13, <1>14, <1>15
  DEF Next, Step, Failure

\* The state of the contract.
Allowed == granted = PermissionCalls
Image == {ds \in DaemonSets : newAt[ds] # 0}
IsFresh(ds, n) == IsNew(ds, podGen[ds][n])
Fresh == {pod \in DaemonSets \X Nodes : IsNew(pod[1], podGen[pod[1]][pod[2]])}
Disturbed == faults > 0 \/ edits > 0
Done == pc = "succeeded"

\* What a step leaves alone.
SamePods == \A ds \in DaemonSets, n \in Nodes : IsFresh(ds, n)' <=> IsFresh(ds, n)

LEMMA FreshSame == ASSUME SamePods PROVE Fresh' = Fresh
  BY DEF SamePods, Fresh, IsFresh

LEMMA FreshMore ==
  ASSUME NEW b \in DaemonSets, NEW m \in Nodes, IsFresh(b, m)',
         \A ds \in DaemonSets, n \in Nodes :
            ds # b \/ n # m => (IsFresh(ds, n)' <=> IsFresh(ds, n))
  PROVE  Fresh' = Fresh \cup {<<b, m>>}
  BY DEF Fresh, IsFresh

LEMMA ContractStutters ==
  ASSUME UNCHANGED <<granted, newAt, faults, edits>>, SamePods, Done' <=> Done
  PROVE  UNCHANGED Contract!vars
<1>1. Fresh' = Fresh /\ Image' = Image
  BY FreshSame DEF Image
<1>2. (Allowed' <=> Allowed) /\ (Disturbed' <=> Disturbed)
  BY DEF Allowed, Disturbed
<1> QED
  BY <1>1, <1>2, Zenon DEF Contract!vars, Fresh, Image, Allowed, Disturbed, Done

LEMMA ContractDisturbed ==
  ASSUME UNCHANGED <<granted, newAt>>, SamePods, Done' <=> Done, Disturbed'
  PROVE  Contract!Disturb
<1>1. Fresh' = Fresh /\ Image' = Image
  BY FreshSame DEF Image
<1>2. Allowed' <=> Allowed
  BY DEF Allowed
<1> QED
  BY <1>1, <1>2, Zenon DEF Contract!Disturb, Fresh, Image, Allowed, Disturbed, Done

LEMMA ContractAllowed ==
  ASSUME UNCHANGED newAt, SamePods, Done' <=> Done, Allowed',
         Disturbed' \/ (Disturbed' <=> Disturbed)
  PROVE  Contract!Allow
<1>1. Fresh' = Fresh /\ Image' = Image
  BY FreshSame DEF Image
<1> QED
  BY <1>1, Zenon DEF Contract!Allow, Contract!MayBeDisturbed, Fresh, Image, Allowed, Disturbed, Done

LEMMA ContractSetsImage ==
  ASSUME NEW b \in DaemonSets, newAt[b] = 0, newAt'[b] # 0,
         \A ds \in DaemonSets \ {b} : newAt'[ds] = newAt[ds],
         Allowed, Allowed', ~Done, ~Done', SamePods,
         Disturbed' \/ (Disturbed' <=> Disturbed)
  PROVE  Contract!SetImage(b)
<1>1. Fresh' = Fresh /\ Image' = Image \cup {b} /\ b \notin Image
  BY FreshSame DEF Image
<1> QED
  BY <1>1, Zenon DEF Contract!SetImage, Contract!MayBeDisturbed, Fresh, Image, Allowed, Disturbed, Done

LEMMA ContractReplaces ==
  ASSUME NEW b \in DaemonSets, NEW m \in Nodes, newAt[b] # 0, IsFresh(b, m)',
         \A ds \in DaemonSets, n \in Nodes :
            ds # b \/ n # m => (IsFresh(ds, n)' <=> IsFresh(ds, n)),
         UNCHANGED <<granted, newAt, faults, edits>>, Done' <=> Done
  PROVE  Contract!Replace(b, m)
<1>1. Fresh' = Fresh \cup {<<b, m>>} /\ Image' = Image /\ b \in Image
  BY FreshMore DEF Image
<1>2. (Allowed' <=> Allowed) /\ (Disturbed' <=> Disturbed)
  BY DEF Allowed, Disturbed
<1> QED
  BY <1>1, <1>2, Zenon DEF Contract!Replace, Fresh, Image, Allowed, Disturbed, Done

LEMMA ContractFinishes ==
  ASSUME UNCHANGED <<granted, newAt, faults, edits>>, SamePods, Done',
         \A ds \in DaemonSets : newAt[ds] # 0,
         Disturbed \/ \A ds \in DaemonSets, n \in Nodes : IsFresh(ds, n)
  PROVE  Contract!Finish
<1>1. Fresh' = Fresh /\ Image' = Image /\ Image = DaemonSets
  BY FreshSame DEF Image
<1>2. (Allowed' <=> Allowed) /\ (Disturbed' <=> Disturbed)
  BY DEF Allowed, Disturbed
<1>3. Disturbed \/ Fresh = DaemonSets \X Nodes
  BY DEF Fresh, IsFresh
<1> QED
  BY <1>1, <1>2, <1>3, Zenon DEF Contract!Finish, Contract!Pods, Fresh, Image, Allowed, Disturbed, Done

ContractInv == IInv /\ PermissionsInv /\ ListingOK /\ DoomedOK /\ SmoothInv

\* The pods are the same when nothing that IsFresh reads has changed.
LEMMA PodsUnchanged == ASSUME UNCHANGED <<newAt, podGen>> PROVE SamePods
  BY DEF SamePods, IsFresh, IsNew

LEMMA ContractController ==
  ASSUME ContractInv, Controller
  PROVE  Contract!Next \/ UNCHANGED Contract!vars
<1> USE DEF status, pods, cluster
<1>1. PICK ds \in DaemonSets :
         \/ ControllerObserves(ds) \/ ControllerWritesStatus(ds)
         \/ \E n \in Nodes : ControllerReplacesPod(ds, n) \/ PodBecomesReady(ds, n)
  BY DEF Controller
<1>2. UNCHANGED <<granted, newAt, faults, edits, pc>>
  BY <1>1 DEF ControllerObserves, ControllerWritesStatus, ControllerReplacesPod, PodBecomesReady
<1>3. Done' <=> Done
  BY <1>2 DEF Done
<1>4. CASE UNCHANGED podGen
  BY <1>2, <1>3, <1>4, PodsUnchanged, ContractStutters
<1>5. ASSUME NEW n \in Nodes, ControllerReplacesPod(ds, n)
      PROVE  Contract!Next \/ UNCHANGED Contract!vars
  <2>0. TypeOK /\ GenerationsOK
    BY DEF ContractInv, IInv
  <2>1. \A e \in DaemonSets, m \in Nodes :
           podGen'[e][m] = IF e = ds /\ m = n THEN cached[ds] ELSE podGen[e][m]
    BY <1>5, <2>0 DEF ControllerReplacesPod, TypeOK
  <2>2. \A e \in DaemonSets, m \in Nodes :
           e # ds \/ m # n => (IsFresh(e, m)' <=> IsFresh(e, m))
    BY <1>2, <2>1 DEF IsFresh, IsNew
  <2>3. IsFresh(ds, n) => IsFresh(ds, n)'
    <3>1. podGen'[ds][n] = cached[ds] /\ podGen[ds][n] <= cached[ds]
      BY <2>0, <2>1 DEF GenerationsOK
    <3>2. podGen[ds][n] \in Nat /\ cached[ds] \in Nat /\ newAt[ds] \in Nat
      BY <2>0 DEF TypeOK
    <3> QED BY <1>2, <3>1, <3>2 DEF IsFresh, IsNew
  <2>4. CASE IsFresh(ds, n)'
    <3>1. newAt[ds] # 0
      BY <1>2, <2>4 DEF IsFresh, IsNew
    <3>2. Contract!Replace(ds, n)
      BY <1>2, <1>3, <2>2, <2>4, <3>1, ContractReplaces
    <3> QED BY <3>2, Zenon DEF Contract!Next
  <2>5. CASE ~IsFresh(ds, n)'
    <3>1. SamePods
      BY <2>2, <2>3, <2>5, Zenon DEF SamePods
    <3> QED BY <1>2, <1>3, <3>1, ContractStutters
  <2> QED BY <2>4, <2>5
<1> QED
  BY <1>1, <1>4, <1>5
  DEF ControllerObserves, ControllerWritesStatus, PodBecomesReady

\* The new image is stored, in a DaemonSet that did not have it, before the pods.
LEMMA ContractStoresImage ==
  ASSUME ContractInv, NEW ds \in DaemonSets, Updating(ds), StoreImage(ds), UNCHANGED edits,
         pc' \in {"list", "update"}, UNCHANGED faults \/ Fault
  PROVE  Contract!Next
<1>0. TypeOK /\ GenerationsOK /\ PermissionsInv /\ ListingOK
  BY DEF ContractInv, IInv
<1>1. pc = "update" /\ ~seen[ds].new /\ seen[ds].current /\ UNCHANGED <<granted, podGen>>
  BY DEF Updating, StoreImage, cluster, pods
<1>2. newAt[ds] = 0
  BY <1>0, <1>1 DEF ListingOK, HasImage
<1>3. newAt'[ds] = gen[ds] + 1 /\ \A e \in DaemonSets \ {ds} : newAt'[e] = newAt[e]
  BY <1>0 DEF StoreImage, TypeOK
<1>4. Allowed /\ Allowed'
  BY <1>0, <1>1 DEF PermissionsInv, TypeOK, Allowed
<1>5. \A n \in Nodes : ~IsFresh(ds, n) /\ ~IsFresh(ds, n)'
  <2> SUFFICES ASSUME NEW n \in Nodes PROVE ~IsFresh(ds, n) /\ ~IsFresh(ds, n)'
    OBVIOUS
  <2>1. podGen[ds][n] <= cached[ds] /\ cached[ds] <= gen[ds]
    BY <1>0 DEF GenerationsOK
  <2>2. podGen[ds][n] \in Nat /\ cached[ds] \in Nat /\ gen[ds] \in Nat
    BY <1>0 DEF TypeOK
  <2> QED BY <1>1, <1>2, <1>3, <2>1, <2>2 DEF IsFresh, IsNew
<1>6. SamePods
  <2>1. \A e \in DaemonSets \ {ds}, n \in Nodes : IsFresh(e, n)' <=> IsFresh(e, n)
    BY <1>1, <1>3 DEF IsFresh, IsNew
  <2> QED BY <1>5, <2>1, Zenon DEF SamePods
<1>7. ~Done /\ ~Done'
  BY <1>1 DEF Done
<1>8. Disturbed' \/ (Disturbed' <=> Disturbed)
  BY <1>0 DEF Disturbed, Fault, TypeOK
<1>9. newAt'[ds] # 0
  BY <1>0, <1>3 DEF TypeOK
<1>10. Contract!SetImage(ds)
  BY <1>2, <1>3, <1>4, <1>6, <1>7, <1>8, <1>9, ContractSetsImage
<1> QED BY <1>10, Zenon DEF Contract!Next

\* upgradePX returns nil.
LEMMA ContractReturns ==
  ASSUME ContractInv, checkAPIService
  PROVE  Contract!Next \/ UNCHANGED Contract!vars
<1>1. /\ pc = "apiService" /\ UNCHANGED <<granted, newAt, podGen, faults, edits, todo>>
      /\ pc' = IF todo = {} THEN "succeeded" ELSE "wait"
  BY DEF checkAPIService, pods
<1>2. SamePods /\ ~Done
  BY <1>1, PodsUnchanged DEF Done
<1>3. CASE todo # {}
  <2>1. ~Done'
    BY <1>1, <1>3 DEF Done
  <2> QED BY <1>1, <1>2, <2>1, ContractStutters
<1>4. CASE todo = {}
  <2>1. Done' /\ \A ds \in DaemonSets : newAt[ds] # 0
    BY <1>1, <1>4 DEF Done, ContractInv, ListingOK, HasImage, Waiting, Refreshing
  <2>2. ASSUME ~Disturbed PROVE \A ds \in DaemonSets, n \in Nodes : IsFresh(ds, n)
    <3>1. faults = 0 /\ edits = 0
      BY <2>2 DEF Disturbed, ContractInv, IInv, TypeOK
    <3>2. ~Doomed
      BY <1>1 DEF ContractInv, DoomedOK, Doomed, Waiting, Refreshing
    <3>3. \A ds \in DaemonSets : UpdatedOnce(ds)
      BY <1>1, <3>1, <3>2 DEF ContractInv, SmoothInv, SmoothOK, Waiting, Refreshing
    <3>4. Validated = DaemonSets
      BY <1>1, <1>4 DEF Validated
    <3>5. \A ds \in DaemonSets : AllNew(ds)
      BY <3>3, <3>4 DEF ContractInv, IInv, WaitIsSound, UpdatedOnce
    <3> QED BY <3>5 DEF AllNew, IsFresh
  <2>3. Contract!Finish
    BY <1>1, <1>2, <2>1, <2>2, ContractFinishes
  <2> QED BY <2>3, Zenon DEF Contract!Next
<1> QED BY <1>3, <1>4

LEMMA ContractStep ==
  ASSUME ContractInv, [Next]_vars
  PROVE  Contract!Next \/ UNCHANGED Contract!vars
<1> USE DEF status, pods, cluster
<1>0. TypeOK
  BY DEF ContractInv, IInv
<1>a. ASSUME UNCHANGED <<granted, newAt, podGen, faults, edits>>, pc # "succeeded", pc' # "succeeded"
      PROVE  UNCHANGED Contract!vars
  BY <1>a, PodsUnchanged, ContractStutters DEF Done
<1>b. ASSUME UNCHANGED <<granted, newAt, podGen, edits>>, Fault, pc # "succeeded", pc' # "succeeded"
      PROVE  Contract!Next
  <2>1. Disturbed'
    BY <1>0, <1>b DEF Fault, Disturbed, TypeOK
  <2>2. Contract!Disturb
    BY <1>b, <2>1, PodsUnchanged, ContractDisturbed DEF Done
  <2> QED BY <2>2, Zenon DEF Contract!Next
<1>1. CASE UNCHANGED vars
  BY <1>1, PodsUnchanged, ContractStutters DEF vars, Done
<1>2. CASE Controller
  BY <1>2, ContractController
<1>3. CASE \E ds \in DaemonSets : OtherEdit(ds)
  <2>1. UNCHANGED <<granted, newAt, podGen, pc>> /\ edits' = edits + 1
    BY <1>3 DEF OtherEdit
  <2>2. Disturbed'
    BY <1>0, <2>1 DEF Disturbed, TypeOK
  <2>3. Contract!Disturb
    BY <2>1, <2>2, PodsUnchanged, ContractDisturbed DEF Done
  <2> QED BY <2>3, Zenon DEF Contract!Next
<1>4. CASE preFlightChecks \/ PermissionsDone \/ getPXDaemonsets \/ UpdatesDone
           \/ ValidateDaemonSet \/ ValidateWithoutTime \/ PatchService \/ checkAPIDaemonset
  BY <1>4, <1>a DEF preFlightChecks, PermissionsDone, getPXDaemonsets, UpdatesDone,
                    ValidateDaemonSet, ValidateWithoutTime, PatchService, checkAPIDaemonset
<1>5. CASE \E ds \in DaemonSets : SkipUpdate(ds) \/ RefusePinned(ds) \/ UpdateRefused(ds)
                                  \/ AwaitGeneration(ds)
  BY <1>5, <1>a DEF SkipUpdate, RefusePinned, UpdateRefused, AwaitGeneration, Updating
<1>6. ASSUME NEW c \in PermissionCalls, Grant(c) \/ GrantFails(c)
      PROVE  Contract!Next \/ UNCHANGED Contract!vars
  <2>1. /\ UNCHANGED <<newAt, podGen, edits>> /\ ~Done /\ ~Done'
        /\ granted \subseteq granted' /\ granted' \subseteq PermissionCalls
        /\ UNCHANGED faults \/ Fault
    BY <1>0, <1>6 DEF Grant, GrantFails, Done, TypeOK
  <2>2. Disturbed' \/ (Disturbed' <=> Disturbed)
    BY <1>0, <2>1 DEF Disturbed, Fault, TypeOK
  <2>3. CASE Allowed'
    BY <2>1, <2>2, <2>3, PodsUnchanged, ContractAllowed, Zenon DEF Contract!Next
  <2>4. CASE ~Allowed'
    <3>1. ~Allowed /\ Image' = Image /\ Fresh' = Fresh
      BY <2>1, <2>4, PodsUnchanged, FreshSame DEF Allowed, Image
    <3>2. CASE Disturbed' <=> Disturbed
      BY <2>1, <2>4, <3>1, <3>2, Zenon
      DEF Contract!vars, Allowed, Image, Fresh, Disturbed, Done
    <3>3. CASE Disturbed'
      BY <2>1, <2>4, <3>1, <3>3, Zenon
      DEF Contract!Next, Contract!Disturb, Allowed, Image, Fresh, Disturbed, Done
    <3> QED BY <2>2, <3>2, <3>3, Zenon
  <2> QED BY <2>3, <2>4
<1>7. CASE \E ds \in DaemonSets : UpdateDaemonSet(ds) \/ UpdateReplyLost(ds)
  BY <1>7, ContractStoresImage DEF UpdateDaemonSet, UpdateReplyLost, Updating
<1>8. CASE checkAPIService
  BY <1>8, ContractReturns
<1>9. CASE (\E ds \in DaemonSets : UpdateFails(ds)) \/ RefreshFails \/ TimeOut \/ Crash
  BY <1>9, <1>b DEF UpdateFails, Updating, RefreshFails, TimeOut, Crash
<1>10. CASE JobRetry
  BY <1>10, <1>a DEF JobRetry
<1> QED
  BY <1>1, <1>2, <1>3, <1>4, <1>5, <1>6, <1>7, <1>8, <1>9, <1>10 DEF Next, Step, Failure

(***************************************************************************)
(* The rollout implements RolloutContract, for any DaemonSets, nodes,      *)
(* faults, edits by others and attempts of the Job.                        *)
(***************************************************************************)
THEOREM RefinesRolloutContract == Spec => ImplementsRolloutContract
<1>1. Init => Contract!Init
  <2> SUFFICES ASSUME Init PROVE Contract!Init
    OBVIOUS
  <2>1. ~Allowed /\ ~Disturbed /\ ~Done
    BY DEF Init, Allowed, Disturbed, Done, PermissionCalls
  <2>2. Image = {} /\ Fresh = {}
    BY DEF Init, Image, Fresh, IsNew
  <2> QED
    BY <2>1, <2>2, Zenon DEF Contract!Init, Allowed, Disturbed, Done, Image, Fresh
<1>2. ContractInv /\ [Next]_vars => [Contract!Next]_(Contract!vars)
  BY ContractStep, Zenon
<1>3. Init => ContractInv
  BY InitIInv, InitPermissions, InitListing, InitClean DEF ContractInv
<1>4. ContractInv /\ [Next]_vars => ContractInv'
  <2>1. IInv => TypeOK
    BY DEF IInv
  <2> QED
    BY <2>1, IInvNext, PermissionsNext, ListingNext, DoomedNext, SmoothNext, Zenon DEF ContractInv
<1> QED
  BY <1>1, <1>2, <1>3, <1>4, PTL DEF Spec, ImplementsRolloutContract, Contract!Spec
=============================================================================
