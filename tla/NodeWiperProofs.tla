-------------------------- MODULE NodeWiperProofs ---------------------------
(***************************************************************************)
(* A ready wiper means a clean node, for any nodes and any number of       *)
(* failures.                                                               *)
(***************************************************************************)
EXTENDS NodeWiper, TLAPS

\* What the script has achieved when it is past a step.
Progress(n) ==
    /\ script[n] = "removeOpt" => (n \in hadPxctl => ~drives[n])
    /\ script[n] = "removeEtc" => opt[n] = "removed"
    /\ script[n] \in {"touch", "sleep"} => opt[n] = "removed" /\ ~etc[n]

WiperInv == TypeOK /\ PxctlOutlivesData /\ \A n \in Nodes : Progress(n)

\* The initial states.
LEMMA WiperInit == Init => WiperInv
  BY NodeWiperAssumption
  DEF Init, WiperInv, TypeOK, PxctlOutlivesData, Progress, ScriptLocations

\* What an interrupted command leaves behind keeps the invariant.
LEMMA GoneKeepsInv ==
  ASSUME WiperInv, NEW n \in Nodes, ContainerGone(n),
         nodeFaults' \in 0 .. MaxNodeFaults
  PROVE  WiperInv'
<1>1. TypeOK'
  BY DEF WiperInv, TypeOK, ContainerGone, HalfDone, ScriptLocations
<1>2. PxctlOutlivesData'
  BY DEF WiperInv, TypeOK, PxctlOutlivesData, Progress, ContainerGone, HalfDone
<1>3. ASSUME NEW m \in Nodes PROVE Progress(m)'
  BY DEF WiperInv, TypeOK, Progress, ContainerGone, HalfDone, ScriptLocations
<1>. QED BY <1>1, <1>2, <1>3 DEF WiperInv

\* Every step of a script keeps the invariant.
LEMMA ScriptKeepsInv ==
  ASSUME WiperInv, NEW n \in Nodes, ContainerStarts(n) \/ Script(n)
  PROVE  WiperInv'
<1>. USE NodeWiperAssumption DEF WiperInv, TypeOK, PxctlOutlivesData, Progress, At,
                                 NodeFault, ScriptLocations, host
<1>1. CASE ContainerStarts(n) BY <1>1 DEF ContainerStarts
<1>2. CASE StopService(n) BY <1>2 DEF StopService
<1>3. CASE WipeDrives(n) BY <1>3 DEF WipeDrives
<1>4. CASE WipeFails(n) BY <1>4 DEF WipeFails
<1>5. CASE RemoveOpt(n) BY <1>5 DEF RemoveOpt
<1>6. CASE RemoveOptFails(n) BY <1>6 DEF RemoveOptFails
<1>7. CASE RemoveEtc(n) BY <1>7 DEF RemoveEtc
<1>8. CASE RemoveEtcFails(n) BY <1>8 DEF RemoveEtcFails
<1>9. CASE Touch(n) BY <1>9 DEF Touch
<1>10. CASE SleepEnds(n) BY <1>10 DEF SleepEnds
<1>. QED BY <1>1, <1>2, <1>3, <1>4, <1>5, <1>6, <1>7, <1>8, <1>9, <1>10 DEF Script

\* The invariant is inductive.
LEMMA WiperStep == WiperInv /\ [Next]_vars => WiperInv'
<1>. SUFFICES ASSUME WiperInv, [Next]_vars PROVE WiperInv'
  OBVIOUS
<1>1. CASE UNCHANGED vars
  BY <1>1 DEF WiperInv, TypeOK, PxctlOutlivesData, Progress, vars
<1>2. ASSUME NEW n \in Nodes, ContainerStarts(n) \/ Script(n) PROVE WiperInv'
  BY <1>2, ScriptKeepsInv
<1>3. ASSUME NEW n \in Nodes, ContainerKilled(n) PROVE WiperInv'
  <2>1. nodeFaults' \in 0 .. MaxNodeFaults
    BY <1>3, NodeWiperAssumption DEF ContainerKilled, NodeFault, WiperInv, TypeOK
  <2>. QED BY <1>3, <2>1, GoneKeepsInv DEF ContainerKilled
<1>. QED BY <1>1, <1>2, <1>3 DEF Next

\* A clean node follows from a status file.
LEMMA InvImpliesClean == WiperInv => ReadyMeansClean
  BY DEF WiperInv, TypeOK, PxctlOutlivesData, Progress, ReadyMeansClean, Clean

\* The readiness probe of px-node-wiper.sh succeeds only on a clean node.
THEOREM ReadyNodesAreClean == Spec => []ReadyMeansClean
<1>. QED BY WiperInit, WiperStep, InvImpliesClean, PTL DEF Spec

\* pxctl is not removed before it has wiped the drives.
THEOREM PxctlIsRemovedLast == Spec => []PxctlOutlivesData
<1>1. WiperInv => PxctlOutlivesData
  BY DEF WiperInv
<1>. QED BY <1>1, WiperInit, WiperStep, PTL DEF Spec

\* The variables of the nodes and their containers keep their types.
THEOREM WiperTypeCorrect == Spec => []TypeOK
<1>1. WiperInv => TypeOK
  BY DEF WiperInv
<1>. QED BY <1>1, WiperInit, WiperStep, PTL DEF Spec
=============================================================================
