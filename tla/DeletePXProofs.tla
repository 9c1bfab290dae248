--------------------------- MODULE DeletePXProofs ---------------------------
(***************************************************************************)
(* Safety of the delete operation for any DaemonSets, namespaces, nodes,   *)
(* faults and restarts: nothing is wiped under a running Portworx, a nil   *)
(* return means that what the operation found is gone, an error needs a    *)
(* reason, nodes whose wiper was found ready are clean and the nodes that  *)
(* Portworx was kept from untouched, and no wiper is left behind.          *)
(***************************************************************************)
EXTENDS DeletePX, TLAPS

NoneRunning == \A d \in DaemonSets : ds[d] # "running"

\* The locations after the loop over the DaemonSets.
AfterDaemonSets == Locations \ {"start", "parse", "listDS", "daemonsets", "failed", "crashed"}
\* The locations in which a kind of a list, or a namespace, is being deleted.
AfterConfigMaps == AfterDaemonSets \ {"cluster", "listQueues", "configMaps"}
AfterNamespaces == AfterConfigMaps \ {"namespaces", "components"}

Shape ==
    /\ ds \in [DaemonSets -> {"running", "terminating", "gone"}]
    /\ script \in [Nodes -> W!ScriptLocations]
    /\ pc \in Locations
    /\ nsLeft \in [Namespaces -> SUBSET KindsOf(NamespaceKinds)]
    /\ left \subseteq KindsOf(ClusterKinds) \cup {"configMaps", "queues"}
    /\ installed \subseteq Namespaces
    /\ k \in Nat \ {0}
    /\ queues \subseteq {"queues"}

\* The DaemonSets that still run are the ones that are to be deleted.
RunningOnes ==
    /\ pc \in {"parse", "listDS"} =>
          \A d \in DaemonSets : ds[d] = "running" => Home[d] \in installed
    /\ pc = "daemonsets" => \A d \in DaemonSets : ds[d] = "running" => d \in todo
    /\ pc \in AfterDaemonSets => NoneRunning

\* Wipers run only while their DaemonSet exists.
NoStrayWiper == wiper = "absent" => \A n \in Nodes : script[n] = "none"

WipeInv == Shape /\ RunningOnes /\ NoStrayWiper /\ NothingWipedUnderPX

\* What is left of the components in the middle of the loops.
ClusterProgress ==
    /\ pc = "cluster" =>
          left \subseteq {ClusterKinds[i] : i \in k .. Len(ClusterKinds)} \cup {"configMaps", "queues"}
    /\ pc = "listQueues" => left \subseteq {"configMaps", "queues"}
    /\ pc = "configMaps" => left \subseteq {"configMaps"} \cup queues \cup hidden
    /\ pc \in AfterConfigMaps => left \subseteq hidden

NamespaceProgress ==
    /\ pc = "namespaces" =>
          todo \subseteq installed /\ \A ns \in installed \ todo : nsLeft[ns] = {}
    /\ pc = "components" =>
          /\ cur \in installed /\ todo \subseteq installed
          /\ \A ns \in installed \ (todo \cup {cur}) : nsLeft[ns] = {}
          /\ nsLeft[cur] \subseteq {NamespaceKinds[i] : i \in k .. Len(NamespaceKinds)}
    /\ pc \in AfterNamespaces => \A ns \in installed : nsLeft[ns] = {}

LoopInv == ClusterProgress /\ NamespaceProgress

USE DEF Ended, Locations, AfterDaemonSets, AfterConfigMaps, AfterNamespaces

-----------------------------------------------------------------------------
\* The lists of kinds have a length.
LEMMA KindsLength == Len(ClusterKinds) = 6 /\ Len(NamespaceKinds) = 9
  BY DEF ClusterKinds, NamespaceKinds

\* Removing an element at one place of a function to sets.
LEMMA ExceptSubset ==
  ASSUME NEW D, NEW S, NEW f \in [D -> SUBSET S], NEW c, NEW e
  PROVE  [f EXCEPT ![c] = @ \ {e}] \in [D -> SUBSET S]
  OBVIOUS

\* The initial states.
LEMMA DeleteInit == Init => WipeInv /\ LoopInv
<1>. SUFFICES ASSUME Init PROVE WipeInv /\ LoopInv
  OBVIOUS
<1>1. Shape
  BY DEF Init, W!Init, Shape, W!ScriptLocations
<1>2. RunningOnes /\ NoStrayWiper /\ LoopInv
  BY DEF Init, W!Init, RunningOnes, NoStrayWiper, LoopInv, ClusterProgress, NamespaceProgress
<1>3. NothingWipedUnderPX
  BY DEF Init, W!Init, NothingWipedUnderPX, Destroying
<1>. QED BY <1>1, <1>2, <1>3 DEF WipeInv

-----------------------------------------------------------------------------
\* Everything the steps of the process may do to the inductive invariant.
LEMMA StepKeepsWipeInv ==
  ASSUME WipeInv, Step
  PROVE  WipeInv'
<1>. USE DeleteAssumption, KindsLength
     DEF WipeInv, Shape, RunningOnes, NoStrayWiper, NothingWipedUnderPX, Destroying,
         NoneRunning, Go, nodes, objects, locals, given
<1>1. CASE NewPXClusterProvider BY <1>1 DEF NewPXClusterProvider, PXDaemonSets
<1>2. CASE NoPXDaemonset BY <1>2 DEF NoPXDaemonset
<1>3. CASE parseConfigFromDaemonset BY <1>3 DEF parseConfigFromDaemonset, PXDaemonSets
<1>4. CASE getPXDaemonsets BY <1>4 DEF getPXDaemonsets, PXDaemonSets
<1>5. CASE DaemonSetsDeleted BY <1>5 DEF DaemonSetsDeleted
<1>6. ASSUME NEW d \in DaemonSets, DeleteDaemonSet(d) PROVE WipeInv'
  <2>1. ds' \in [DaemonSets -> {"running", "terminating", "gone"}]
    BY <1>6 DEF DeleteDaemonSet, Delete
  <2>2. ds'[d] # "running" /\ \A e \in DaemonSets : ds'[e] = "running" => ds[e] = "running"
    BY <1>6 DEF DeleteDaemonSet, Delete
  <2>3. RunningOnes'
    BY <1>6, <2>2 DEF DeleteDaemonSet
  <2>. QED BY <1>6, <2>1, <2>2, <2>3 DEF DeleteDaemonSet
<1>7. ASSUME NEW d \in DaemonSets, DaemonSetNotFound(d) PROVE WipeInv'
  BY <1>7 DEF DaemonSetNotFound
<1>8. CASE DeleteClusterKind BY <1>8 DEF DeleteClusterKind
<1>9. CASE ListConfigMap BY <1>9 DEF ListConfigMap
<1>10. CASE DeleteConfigMaps BY <1>10 DEF DeleteConfigMaps
<1>11. ASSUME NEW ns \in Namespaces, EnterNamespace(ns) PROVE WipeInv'
  BY <1>11 DEF EnterNamespace
<1>12. CASE DeleteNamespaceKind
  <2>1. nsLeft' = [nsLeft EXCEPT ![cur] = @ \ {NamespaceKinds[k]}] /\ k' \in Nat \ {0}
    BY <1>12 DEF DeleteNamespaceKind
  <2>2. nsLeft' \in [Namespaces -> SUBSET KindsOf(NamespaceKinds)]
    BY <2>1, ExceptSubset
  <2>. QED BY <1>12, <2>1, <2>2 DEF DeleteNamespaceKind
<1>13. CASE ComponentsDeleted BY <1>13 DEF ComponentsDeleted
<1>14. CASE PreDelete BY <1>14 DEF PreDelete
<1>15. CASE AwaitGone BY <1>15 DEF AwaitGone
<1>16. CASE CreateDaemonSet BY <1>16 DEF CreateDaemonSet
<1>17. CASE CreateRefused BY <1>17 DEF CreateRefused
<1>18. CASE ValidateWiper BY <1>18 DEF ValidateWiper
<1>19. CASE WaitTimesOut BY <1>19 DEF WaitTimesOut
<1>20. CASE DeleteWiper BY <1>20 DEF DeleteWiper
<1>21. CASE wipePXKvdb BY <1>21 DEF wipePXKvdb
<1>22. CASE runPXNodeWiper BY <1>22 DEF runPXNodeWiper
<1>. QED
  BY <1>1, <1>2, <1>3, <1>4, <1>5, <1>6, <1>7, <1>8, <1>9, <1>10, <1>11, <1>12, <1>13,
     <1>14, <1>15, <1>16, <1>17, <1>18, <1>19, <1>20, <1>21, <1>22 DEF Step

\* Failed calls, restarts and the environment.
LEMMA FailureKeepsWipeInv ==
  ASSUME WipeInv, Failure \/ JobRetry
  PROVE  WipeInv'
<1>. USE DeleteAssumption, KindsLength
     DEF WipeInv, Shape, RunningOnes, NoStrayWiper, NothingWipedUnderPX, Destroying,
         NoneRunning, Fails, Fault, nodes, objects, locals, given
<1>1. CASE LookupFails BY <1>1 DEF LookupFails
<1>2. ASSUME NEW d \in DaemonSets, DeleteDaemonSetFails(d) PROVE WipeInv'
  BY <1>2 DEF DeleteDaemonSetFails, Delete
<1>3. CASE DeleteClusterKindFails BY <1>3 DEF DeleteClusterKindFails
<1>4. CASE ListConfigMapFails BY <1>4 DEF ListConfigMapFails
<1>5. CASE DeleteConfigMapsFails BY <1>5 DEF DeleteConfigMapsFails
<1>6. CASE DeleteNamespaceKindFails BY <1>6 DEF DeleteNamespaceKindFails
<1>7. CASE AwaitGoneMisled BY <1>7 DEF AwaitGoneMisled
<1>8. CASE WiperCallFails BY <1>8 DEF WiperCallFails
<1>9. CASE wipePXKvdbFails BY <1>9 DEF wipePXKvdbFails
<1>10. CASE Crash BY <1>10 DEF Crash
<1>11. CASE JobRetry BY <1>11 DEF JobRetry
<1>. QED
  BY <1>1, <1>2, <1>3, <1>4, <1>5, <1>6, <1>7, <1>8, <1>9, <1>10, <1>11 DEF Failure

\* The garbage collector, and the wipers on their nodes.
LEMMA EnvironmentKeepsWipeInv ==
  ASSUME WipeInv, Environment
  PROVE  WipeInv'
<1>. USE DeleteAssumption
     DEF WipeInv, Shape, RunningOnes, NoStrayWiper, NothingWipedUnderPX, Destroying,
         NoneRunning, nodes, objects, process, locals, given
<1>1. ASSUME NEW d \in DaemonSets, DaemonSetGone(d) PROVE WipeInv'
  BY <1>1 DEF DaemonSetGone
<1>2. CASE WiperGone BY <1>2 DEF WiperGone
<1>3. ASSUME NEW n \in Nodes, WiperStep(n) \/ WiperPodRemoved(n) PROVE WipeInv'
  <2>1. wiper # "absent"
    BY <1>3 DEF WiperStep, WiperPodRemoved, W!Script, W!At, W!StopService, W!WipeDrives,
       W!WipeFails, W!RemoveOpt, W!RemoveOptFails, W!RemoveEtc, W!RemoveEtcFails, W!Touch,
       W!SleepEnds
  <2>2. script' \in [Nodes -> W!ScriptLocations]
    BY <1>3 DEF WiperStep, WiperPodRemoved, W!Script, W!At, W!StopService, W!WipeDrives,
       W!WipeFails, W!RemoveOpt, W!RemoveOptFails, W!RemoveEtc, W!RemoveEtcFails, W!Touch,
       W!SleepEnds, W!ContainerStarts, W!ContainerKilled, W!ContainerGone, W!ScriptLocations
  <2>3. UNCHANGED <<objects, process>>
    BY <1>3 DEF WiperStep, WiperPodRemoved
  <2>. QED BY <2>1, <2>2, <2>3
<1>. QED BY <1>1, <1>2, <1>3 DEF Environment

\* The invariant is inductive.
LEMMA WipeInvInductive == WipeInv /\ [Next]_vars => WipeInv'
<1>. SUFFICES ASSUME WipeInv, [Next]_vars PROVE WipeInv'
  OBVIOUS
<1>1. CASE UNCHANGED vars
  BY <1>1 DEF WipeInv, Shape, RunningOnes, NoStrayWiper, NothingWipedUnderPX, Destroying,
              NoneRunning, vars, nodes, objects, locals, given
<1>. QED
  BY <1>1, StepKeepsWipeInv, FailureKeepsWipeInv, EnvironmentKeepsWipeInv DEF Next

\* No kvdb tree, drive or configuration is wiped while Portworx runs.
THEOREM NoWipeUnderPX == Spec => []NothingWipedUnderPX
<1>1. WipeInv => NothingWipedUnderPX
  BY DEF WipeInv
<1>. QED BY <1>1, DeleteInit, WipeInvInductive, PTL DEF Spec

-----------------------------------------------------------------------------
\* The loops over the kinds and the namespaces.
LEMMA StepKeepsLoopInv ==
  ASSUME WipeInv, LoopInv, Step
  PROVE  LoopInv'
<1>. USE DeleteAssumption, KindsLength
     DEF WipeInv, Shape, LoopInv, ClusterProgress, NamespaceProgress, KindsOf, Go, nodes, objects, locals, given
<1>1. CASE NewPXClusterProvider BY <1>1 DEF NewPXClusterProvider, PXDaemonSets
<1>2. CASE NoPXDaemonset BY <1>2 DEF NoPXDaemonset
<1>3. CASE parseConfigFromDaemonset BY <1>3 DEF parseConfigFromDaemonset, PXDaemonSets
<1>4. CASE getPXDaemonsets BY <1>4 DEF getPXDaemonsets, PXDaemonSets
<1>5. CASE DaemonSetsDeleted BY <1>5 DEF DaemonSetsDeleted
<1>6. ASSUME NEW d \in DaemonSets, DeleteDaemonSet(d) PROVE LoopInv'
  BY <1>6 DEF DeleteDaemonSet
<1>7. ASSUME NEW d \in DaemonSets, DaemonSetNotFound(d) PROVE LoopInv'
  BY <1>7 DEF DaemonSetNotFound
<1>8. CASE DeleteClusterKind BY <1>8 DEF DeleteClusterKind
<1>9. CASE ListConfigMap BY <1>9 DEF ListConfigMap
<1>10. CASE DeleteConfigMaps BY <1>10 DEF DeleteConfigMaps
<1>11. ASSUME NEW ns \in Namespaces, EnterNamespace(ns) PROVE LoopInv'
  BY <1>11 DEF EnterNamespace
<1>12. CASE DeleteNamespaceKind BY <1>12 DEF DeleteNamespaceKind
<1>13. CASE ComponentsDeleted BY <1>13 DEF ComponentsDeleted
<1>14. CASE PreDelete BY <1>14 DEF PreDelete
<1>15. CASE AwaitGone BY <1>15 DEF AwaitGone
<1>16. CASE CreateDaemonSet BY <1>16 DEF CreateDaemonSet
<1>17. CASE CreateRefused BY <1>17 DEF CreateRefused
<1>18. CASE ValidateWiper BY <1>18 DEF ValidateWiper
<1>19. CASE WaitTimesOut BY <1>19 DEF WaitTimesOut
<1>20. CASE DeleteWiper BY <1>20 DEF DeleteWiper
<1>21. CASE wipePXKvdb BY <1>21 DEF wipePXKvdb
<1>22. CASE runPXNodeWiper BY <1>22 DEF runPXNodeWiper
<1>. QED
  BY <1>1, <1>2, <1>3, <1>4, <1>5, <1>6, <1>7, <1>8, <1>9, <1>10, <1>11, <1>12, <1>13,
     <1>14, <1>15, <1>16, <1>17, <1>18, <1>19, <1>20, <1>21, <1>22 DEF Step

\* A failed call ends the operation, or is one of the wipe, which touches
\* no component.
LEMMA OthersKeepLoopInv ==
  ASSUME WipeInv, LoopInv, Failure \/ JobRetry \/ Environment
  PROVE  LoopInv'
<1>. USE DeleteAssumption
     DEF WipeInv, Shape, LoopInv, ClusterProgress, NamespaceProgress, Fails, Fault,
         objects, locals, given, process
<1>1. CASE LookupFails BY <1>1 DEF LookupFails
<1>2. ASSUME NEW d \in DaemonSets, DeleteDaemonSetFails(d) PROVE LoopInv'
  BY <1>2 DEF DeleteDaemonSetFails
<1>3. CASE DeleteClusterKindFails BY <1>3 DEF DeleteClusterKindFails
<1>4. CASE ListConfigMapFails BY <1>4 DEF ListConfigMapFails
<1>5. CASE DeleteConfigMapsFails BY <1>5 DEF DeleteConfigMapsFails
<1>6. CASE DeleteNamespaceKindFails BY <1>6 DEF DeleteNamespaceKindFails
<1>7. CASE AwaitGoneMisled BY <1>7 DEF AwaitGoneMisled
<1>8. CASE WiperCallFails BY <1>8 DEF WiperCallFails
<1>9. CASE wipePXKvdbFails BY <1>9 DEF wipePXKvdbFails
<1>10. CASE Crash BY <1>10 DEF Crash
<1>11. CASE JobRetry BY <1>11 DEF JobRetry
<1>12. CASE Environment
  BY <1>12 DEF Environment, DaemonSetGone, WiperGone, WiperStep, WiperPodRemoved
<1>. QED
  BY <1>1, <1>2, <1>3, <1>4, <1>5, <1>6, <1>7, <1>8, <1>9, <1>10, <1>11, <1>12 DEF Failure

\* When Delete returns nil, what it found is gone.
THEOREM DeleteIsComplete == Spec => []DeleteRemovesWhatItFound
<1>1. WipeInv /\ LoopInv /\ [Next]_vars => LoopInv'
  <2>. SUFFICES ASSUME WipeInv, LoopInv, [Next]_vars PROVE LoopInv'
    OBVIOUS
  <2>1. CASE UNCHANGED vars
    BY <2>1 DEF LoopInv, ClusterProgress, NamespaceProgress, vars, objects, locals
  <2>. QED BY <2>1, StepKeepsLoopInv, OthersKeepLoopInv DEF Next
<1>2. WipeInv /\ LoopInv => DeleteRemovesWhatItFound
  BY DEF WipeInv, RunningOnes, NoneRunning, LoopInv, ClusterProgress, NamespaceProgress,
         DeleteRemovesWhatItFound
<1>. QED BY <1>1, <1>2, DeleteInit, WipeInvInductive, PTL DEF Spec

-----------------------------------------------------------------------------
(***************************************************************************)
(* The nodes under the delete operation.  What is proved of the scripts    *)
(* for themselves is used here: the operation starts them, takes their     *)
(* containers away at any point, and looks at their status files.          *)
(***************************************************************************)
WP == INSTANCE NodeWiperProofs

\* The steps of the two instances are the same.
LEMMA SameSteps ==
  ASSUME NEW n \in Nodes
  PROVE  /\ W!ContainerStarts(n) => WP!ContainerStarts(n)
         /\ W!Script(n) => WP!Script(n)
         /\ W!ContainerGone(n) => WP!ContainerGone(n)
<1>. USE DEF W!At, WP!At, W!host, WP!host, W!NodeFault, WP!NodeFault
<1>1. W!ContainerStarts(n) => WP!ContainerStarts(n)
  BY Zenon DEF W!ContainerStarts, WP!ContainerStarts
<1>2. W!Script(n) => WP!Script(n)
  <2>1. W!StopService(n) => WP!StopService(n)
    BY Zenon DEF W!StopService, WP!StopService
  <2>2. W!WipeDrives(n) => WP!WipeDrives(n)
    BY Zenon DEF W!WipeDrives, WP!WipeDrives
  <2>3. W!WipeFails(n) => WP!WipeFails(n)
    BY Zenon DEF W!WipeFails, WP!WipeFails
  <2>4. W!RemoveOpt(n) => WP!RemoveOpt(n)
    BY Zenon DEF W!RemoveOpt, WP!RemoveOpt
  <2>5. W!RemoveOptFails(n) => WP!RemoveOptFails(n)
    BY Zenon DEF W!RemoveOptFails, WP!RemoveOptFails
  <2>6. W!RemoveEtc(n) => WP!RemoveEtc(n)
    BY Zenon DEF W!RemoveEtc, WP!RemoveEtc
  <2>7. W!RemoveEtcFails(n) => WP!RemoveEtcFails(n)
    BY Zenon DEF W!RemoveEtcFails, WP!RemoveEtcFails
  <2>8. W!Touch(n) => WP!Touch(n)
    BY Zenon DEF W!Touch, WP!Touch
  <2>9. W!SleepEnds(n) => WP!SleepEnds(n)
    BY Zenon DEF W!SleepEnds, WP!SleepEnds
  <2>. HIDE DEF W!At, WP!At, W!host, WP!host, W!NodeFault, WP!NodeFault
  <2>. QED
    BY <2>1, <2>2, <2>3, <2>4, <2>5, <2>6, <2>7, <2>8, <2>9, Zenon DEF W!Script, WP!Script
<1>3. W!ContainerGone(n) => WP!ContainerGone(n)
  BY Zenon DEF W!ContainerGone, WP!ContainerGone, W!HalfDone, WP!HalfDone
<1>. QED BY <1>1, <1>2, <1>3, Zenon

\* The steps of the nodes keep the invariant of the scripts.
LEMMA NodesKeepInv ==
  ASSUME WP!WiperInv, NEW n \in Nodes, WiperStep(n) \/ WiperPodRemoved(n)
  PROVE  WP!WiperInv'
<1>0. MaxNodeFaults \in Nat
  BY DeleteAssumption
<1>1. CASE W!ContainerStarts(n) \/ W!Script(n)
  BY <1>0, <1>1, WP!ScriptKeepsInv, SameSteps, Zenon
<1>2. CASE W!ContainerGone(n) /\ (UNCHANGED nodeFaults \/ W!NodeFault)
  <2>1. nodeFaults' \in 0 .. MaxNodeFaults
    BY <1>0, <1>2 DEF W!NodeFault, WP!WiperInv, WP!TypeOK
  <2>. QED BY <1>0, <1>2, <2>1, WP!GoneKeepsInv, SameSteps, Zenon
<1>. QED BY <1>1, <1>2, Zenon DEF WiperStep, WiperPodRemoved, W!ContainerKilled

\* A clean node stays clean, whatever runs on it.
LEMMA CleanStays ==
  ASSUME WP!WiperInv, NEW n \in Nodes, NEW m \in Nodes, W!Clean(m),
         W!ContainerStarts(n) \/ W!Script(n) \/ W!ContainerGone(n)
  PROVE  W!Clean(m)'
<1>. USE DEF WP!WiperInv, WP!TypeOK, W!Clean, W!At, W!host, W!NodeFault
<1>1. CASE W!ContainerStarts(n) BY <1>1 DEF W!ContainerStarts
<1>2. CASE W!StopService(n) BY <1>2 DEF W!StopService
<1>3. CASE W!WipeDrives(n) BY <1>3 DEF W!WipeDrives
<1>4. CASE W!WipeFails(n) BY <1>4 DEF W!WipeFails
<1>5. CASE W!RemoveOpt(n) BY <1>5 DEF W!RemoveOpt
<1>6. CASE W!RemoveOptFails(n) BY <1>6 DEF W!RemoveOptFails
<1>7. CASE W!RemoveEtc(n) BY <1>7 DEF W!RemoveEtc
<1>8. CASE W!RemoveEtcFails(n) BY <1>8 DEF W!RemoveEtcFails
<1>9. CASE W!Touch(n) BY <1>9 DEF W!Touch
<1>10. CASE W!SleepEnds(n) BY <1>10 DEF W!SleepEnds
<1>11. CASE W!ContainerGone(n) BY <1>11 DEF W!ContainerGone, W!HalfDone
<1>. HIDE DEF WP!WiperInv, WP!TypeOK, W!Clean, W!At, W!host, W!NodeFault
<1>. QED
  BY <1>1, <1>2, <1>3, <1>4, <1>5, <1>6, <1>7, <1>8, <1>9, <1>10, <1>11, Zenon DEF W!Script

(***************************************************************************)
(* The affinity of the DaemonSet that was parsed, on its way to the wiper. *)
(***************************************************************************)
PXNodes == UNION {Selects[d] : d \in DaemonSets}

AffinityInv ==
    /\ pc \notin {"start", "parse", "failed", "crashed"} => parsed \in DaemonSets
    /\ pc \in {"preDelete", "awaitGone", "create"} => template = Selects[parsed]
    /\ pc = "validate" => wiper = "running" /\ wiperNodes = Selects[parsed]
    /\ wiped => pc \in {"cleanup", "kvdb", "done", "crashed"} /\ parsed \in DaemonSets
    /\ wiperNodes \subseteq PXNodes

\* The steps of the process.
LEMMA StepKeepsAffinity ==
  ASSUME AffinityInv, Step
  PROVE  AffinityInv'
<1>. USE DEF AffinityInv, Go, objects, locals
<1>1. CASE parseConfigFromDaemonset
  BY <1>1 DEF parseConfigFromDaemonset, PXDaemonSets
<1>2. CASE runPXNodeWiper
  BY <1>2 DEF runPXNodeWiper
<1>3. CASE CreateDaemonSet
  BY <1>3 DEF CreateDaemonSet, PXNodes
<1>4. CASE ValidateWiper
  BY <1>4 DEF ValidateWiper
<1>5. CASE PreDelete \/ AwaitGone \/ CreateRefused \/ WaitTimesOut \/ DeleteWiper \/ wipePXKvdb
  BY <1>5 DEF PreDelete, AwaitGone, CreateRefused, WaitTimesOut, DeleteWiper, wipePXKvdb
<1>6. CASE /\ pc \notin {"validate", "cleanup", "kvdb", "done", "crashed"}
           /\ pc' \notin {"preDelete", "awaitGone", "create", "validate", "crashed"}
           /\ pc' \in {"start", "parse", "failed"} \/ parsed \in DaemonSets
           /\ UNCHANGED <<parsed, wiped, wiperNodes>>
  BY <1>6
<1>. QED
  BY <1>1, <1>2, <1>3, <1>4, <1>5, <1>6
  DEF Step, NewPXClusterProvider, NoPXDaemonset, getPXDaemonsets, DaemonSetsDeleted,
      DeleteDaemonSet, DaemonSetNotFound, DeleteClusterKind, ListConfigMap, DeleteConfigMaps,
      EnterNamespace, DeleteNamespaceKind, ComponentsDeleted

\* Failed calls, restarts, the garbage collector and the nodes.
LEMMA OthersKeepAffinity ==
  ASSUME AffinityInv, Failure \/ JobRetry \/ Environment
  PROVE  AffinityInv'
<1>. USE DEF AffinityInv, Fails, Fault, objects, locals, process
<1>1. CASE LookupFails BY <1>1 DEF LookupFails
<1>2. ASSUME NEW d \in DaemonSets, DeleteDaemonSetFails(d) PROVE AffinityInv'
  BY <1>2 DEF DeleteDaemonSetFails
<1>3. CASE DeleteClusterKindFails BY <1>3 DEF DeleteClusterKindFails
<1>4. CASE ListConfigMapFails BY <1>4 DEF ListConfigMapFails
<1>5. CASE DeleteConfigMapsFails BY <1>5 DEF DeleteConfigMapsFails
<1>6. CASE DeleteNamespaceKindFails BY <1>6 DEF DeleteNamespaceKindFails
<1>7. CASE AwaitGoneMisled BY <1>7 DEF AwaitGoneMisled
<1>8. CASE WiperCallFails BY <1>8 DEF WiperCallFails, PXNodes
<1>9. CASE wipePXKvdbFails BY <1>9 DEF wipePXKvdbFails
<1>10. CASE Crash BY <1>10 DEF Crash
<1>11. CASE JobRetry BY <1>11 DEF JobRetry
<1>12. CASE Environment
  BY <1>12 DEF Environment, DaemonSetGone, WiperGone, WiperStep, WiperPodRemoved
<1>. QED
  BY <1>1, <1>2, <1>3, <1>4, <1>5, <1>6, <1>7, <1>8, <1>9, <1>10, <1>11, <1>12 DEF Failure

\* The invariant is inductive.
LEMMA AffinityInductive == AffinityInv /\ [Next]_vars => AffinityInv'
<1>. SUFFICES ASSUME AffinityInv, [Next]_vars PROVE AffinityInv'
  OBVIOUS
<1>1. CASE UNCHANGED vars
  BY <1>1 DEF AffinityInv, vars, objects, locals
<1>. QED BY <1>1, StepKeepsAffinity, OthersKeepAffinity DEF Next

(***************************************************************************)
(* The inductive invariant of the wipe.  The nodes were clean when their   *)
(* pods were found ready, and the flag outlives the pods: what is true of  *)
(* a ready pod must stay true when the pod is taken away.  Nodes outside   *)
(* Portworx have no pod at all.                                            *)
(***************************************************************************)
Untouched(n) == script[n] = "none" /\ service[n] /\ drives[n] /\ etc[n] /\ opt[n] # "removed"

CleanInv ==
    /\ WP!WiperInv
    /\ wiped \in BOOLEAN
    /\ WipedMeansClean
    /\ \A n \in Nodes \ PXNodes : Untouched(n)

\* A step that leaves the nodes alone has to account for the flag only.
QuietFlag ==
    \/ UNCHANGED <<wiped, parsed>>
    \/ wiped' = FALSE
    \/ /\ wiped' = TRUE /\ UNCHANGED parsed
       /\ Selects[parsed] \subseteq Nodes /\ \A n \in Selects[parsed] : statusFile[n]

\* Such a step keeps the invariant.
LEMMA QuietStep ==
  ASSUME CleanInv, UNCHANGED nodes, QuietFlag
  PROVE  CleanInv'
<1>1. WP!WiperInv'
  BY DEF CleanInv, nodes, WP!WiperInv, WP!TypeOK, WP!PxctlOutlivesData, WP!Progress
<1>2. \A n : W!Clean(n)' <=> W!Clean(n)
  BY DEF nodes, W!Clean
<1>3. \A n \in Nodes : statusFile[n] => W!Clean(n)
  BY DEF CleanInv, WP!WiperInv, WP!TypeOK, WP!PxctlOutlivesData, WP!Progress, W!Clean
<1>4. \A n \in Nodes \ PXNodes : Untouched(n)'
  BY DEF CleanInv, nodes, Untouched
<1>5. CASE UNCHANGED <<wiped, parsed>>
  BY <1>1, <1>2, <1>4, <1>5 DEF CleanInv, WipedMeansClean
<1>6. CASE wiped' = FALSE
  BY <1>1, <1>4, <1>6 DEF CleanInv, WipedMeansClean
<1>7. CASE /\ wiped' = TRUE /\ UNCHANGED parsed
           /\ Selects[parsed] \subseteq Nodes /\ \A n \in Selects[parsed] : statusFile[n]
  BY <1>1, <1>2, <1>3, <1>4, <1>7 DEF CleanInv, WipedMeansClean
<1>. QED BY <1>5, <1>6, <1>7 DEF QuietFlag

\* The steps of the process, failed calls and restarts.
LEMMA ProcessIsQuiet ==
  ASSUME AffinityInv, wiped \in BOOLEAN, Step \/ Failure \/ JobRetry
  PROVE  UNCHANGED nodes /\ QuietFlag
<1>. USE DEF Go, Fails, locals
<1>1. CASE parseConfigFromDaemonset
  BY <1>1 DEF parseConfigFromDaemonset, AffinityInv, QuietFlag
<1>2. CASE ValidateWiper
  BY <1>2, DeleteAssumption DEF ValidateWiper, AffinityInv, QuietFlag
<1>3. CASE Step /\ ~parseConfigFromDaemonset /\ ~ValidateWiper
  <2>1. UNCHANGED nodes /\ UNCHANGED <<wiped, parsed>>
    BY <1>3
    DEF Step, NewPXClusterProvider, NoPXDaemonset, getPXDaemonsets,
        DaemonSetsDeleted, DeleteDaemonSet, DaemonSetNotFound, DeleteClusterKind, ListConfigMap,
        DeleteConfigMaps, EnterNamespace, DeleteNamespaceKind, ComponentsDeleted,
        runPXNodeWiper, PreDelete, AwaitGone, CreateDaemonSet, CreateRefused, WaitTimesOut,
        DeleteWiper, wipePXKvdb
  <2>. QED BY <2>1, Zenon DEF QuietFlag
<1>4. CASE Failure
  <2>1. UNCHANGED nodes /\ UNCHANGED <<wiped, parsed>>
    BY <1>4
    DEF Failure, LookupFails, DeleteDaemonSetFails, DeleteClusterKindFails, ListConfigMapFails,
        DeleteConfigMapsFails, DeleteNamespaceKindFails, AwaitGoneMisled, WiperCallFails,
        wipePXKvdbFails, Crash
  <2>. QED BY <2>1, Zenon DEF QuietFlag
<1>5. CASE JobRetry
  BY <1>5 DEF JobRetry, QuietFlag
<1>. QED BY <1>1, <1>2, <1>3, <1>4, <1>5

\* A step on one node leaves the nodes outside Portworx alone.
LEMMA UntouchedStays ==
  ASSUME WP!WiperInv, NEW n \in Nodes, NEW m \in Nodes, Untouched(m),
         \/ m # n /\ W!ContainerStarts(n)
         \/ W!Script(n) \/ W!ContainerGone(n)
  PROVE  Untouched(m)'
<1>. USE DEF WP!WiperInv, WP!TypeOK, Untouched, W!At, W!host, W!NodeFault
<1>1. CASE m # n /\ W!ContainerStarts(n) BY <1>1 DEF W!ContainerStarts
<1>2. CASE W!StopService(n) BY <1>2 DEF W!StopService
<1>3. CASE W!WipeDrives(n) BY <1>3 DEF W!WipeDrives
<1>4. CASE W!WipeFails(n) BY <1>4 DEF W!WipeFails
<1>5. CASE W!RemoveOpt(n) BY <1>5 DEF W!RemoveOpt
<1>6. CASE W!RemoveOptFails(n) BY <1>6 DEF W!RemoveOptFails
<1>7. CASE W!RemoveEtc(n) BY <1>7 DEF W!RemoveEtc
<1>8. CASE W!RemoveEtcFails(n) BY <1>8 DEF W!RemoveEtcFails
<1>9. CASE W!Touch(n) BY <1>9 DEF W!Touch
<1>10. CASE W!SleepEnds(n) BY <1>10 DEF W!SleepEnds
<1>11. CASE W!ContainerGone(n) BY <1>11 DEF W!ContainerGone, W!HalfDone
<1>. HIDE DEF WP!WiperInv, WP!TypeOK, Untouched, W!At, W!host, W!NodeFault
<1>. QED
  BY <1>1, <1>2, <1>3, <1>4, <1>5, <1>6, <1>7, <1>8, <1>9, <1>10, <1>11, Zenon DEF W!Script

\* The invariant is inductive.
LEMMA CleanInvInductive == AffinityInv /\ CleanInv /\ [Next]_vars => CleanInv'
<1>. SUFFICES ASSUME AffinityInv, CleanInv, [Next]_vars PROVE CleanInv'
  OBVIOUS
<1>1. CASE UNCHANGED vars
  BY <1>1, QuietStep DEF vars, locals, QuietFlag
<1>2. CASE Step \/ Failure \/ JobRetry
  BY <1>2, QuietStep, ProcessIsQuiet, Zenon DEF CleanInv
<1>3. CASE WiperGone \/ \E d \in DaemonSets : DaemonSetGone(d)
  BY <1>3, QuietStep DEF WiperGone, DaemonSetGone, process, locals, QuietFlag
<1>4. ASSUME NEW n \in Nodes, WiperStep(n) \/ WiperPodRemoved(n) PROVE CleanInv'
  <2>1. WP!WiperInv'
    BY <1>4, NodesKeepInv DEF CleanInv
  <2>2. W!ContainerStarts(n) \/ W!Script(n) \/ W!ContainerGone(n)
    BY <1>4, Zenon DEF WiperStep, WiperPodRemoved, W!ContainerKilled
  <2>3. UNCHANGED <<wiped, parsed>>
    BY <1>4 DEF WiperStep, WiperPodRemoved, process, locals
  <2>4. \A m \in Nodes : W!Clean(m) => W!Clean(m)'
    BY <2>2, CleanStays DEF CleanInv
  <2>5. WipedMeansClean'
    BY <2>3, <2>4, DeleteAssumption DEF CleanInv, WipedMeansClean, AffinityInv
  <2>6. \/ n \in PXNodes /\ W!ContainerStarts(n)
        \/ W!Script(n) \/ W!ContainerGone(n)
    BY <1>4 DEF WiperStep, WiperPodRemoved, W!ContainerKilled, AffinityInv
  <2>7. ASSUME NEW m \in Nodes \ PXNodes PROVE Untouched(m)'
    BY <2>6, UntouchedStays DEF CleanInv
  <2>. QED BY <2>1, <2>3, <2>5, <2>7 DEF CleanInv
<1>. QED BY <1>1, <1>2, <1>3, <1>4, Zenon DEF Next, Environment

\* The initial states.
LEMMA CleanInit == Init => AffinityInv /\ CleanInv
<1>. SUFFICES ASSUME Init PROVE AffinityInv /\ CleanInv
  OBVIOUS
<1>1. MaxNodeFaults \in Nat
  BY DeleteAssumption
<1>2. WP!Init
  BY Zenon DEF Init, W!Init, WP!Init
<1>3. WP!WiperInv
  BY <1>1, <1>2, WP!WiperInit
<1>4. \A n \in Nodes : Untouched(n)
  BY DEF Init, W!Init, Untouched
<1>5. AffinityInv
  BY DEF Init, AffinityInv
<1>. QED BY <1>3, <1>4, <1>5 DEF Init, CleanInv, WipedMeansClean

(***************************************************************************)
(* When runDaemonSet has returned nil every node that the parsed DaemonSet *)
(* selects is clean, for any nodes and any number of killed containers,    *)
(* failed commands and restarts of the Job: validating the readiness of    *)
(* the wiper is enough.                                                    *)
(***************************************************************************)
THEOREM WipedNodesAreClean == Spec => []WipedMeansClean
<1>1. CleanInv => WipedMeansClean
  BY DEF CleanInv
<1>. QED BY <1>1, CleanInit, AffinityInductive, CleanInvInductive, PTL DEF Spec

(***************************************************************************)
(* No node outside the affinity of every DaemonSet is touched, with any    *)
(* affinities, failed calls, lost replies, restarts and earlier wipers.    *)
(***************************************************************************)
THEOREM OtherNodesAreLeftAlone == Spec => []OnlyPXNodesAreWiped
<1>1. CleanInv => OnlyPXNodesAreWiped
  BY DEF CleanInv, OnlyPXNodesAreWiped, Untouched, PXNodes
<1>. QED BY <1>1, CleanInit, AffinityInductive, CleanInvInductive, PTL DEF Spec

-----------------------------------------------------------------------------
(***************************************************************************)
(* The wiper and the location of the process: without a failed call the    *)
(* wiper runs only between its creation and the deferred deletion, also    *)
(* when a wait times out, and a restarted operation finds no wiper (a pod  *)
(* that dies in between counts as a fault).                                *)
(***************************************************************************)
CleanupInv ==
    /\ faults \in Nat
    /\ faults = 0 /\ wiper = "running" => pc \in {"validate", "cleanup"}

\* A failed call makes the number of faults positive.
LEMMA FailureCounts ==
  ASSUME CleanupInv, Failure
  PROVE  faults' \in Nat /\ faults' # 0
<1>1. Fault
  BY Zenon
  DEF Failure, LookupFails, DeleteDaemonSetFails, DeleteClusterKindFails, ListConfigMapFails,
      DeleteConfigMapsFails, DeleteNamespaceKindFails, AwaitGoneMisled, WiperCallFails,
      wipePXKvdbFails, Crash, Fails
<1>. QED BY <1>1 DEF Fault, CleanupInv

\* The invariant is inductive.
LEMMA CleanupInvInductive == CleanupInv /\ [Next]_vars => CleanupInv'
<1>. SUFFICES ASSUME CleanupInv, [Next]_vars PROVE CleanupInv'
  OBVIOUS
<1>1. CASE Step
  <2>1. CASE CreateDaemonSet \/ ValidateWiper \/ WaitTimesOut \/ DeleteWiper \/ PreDelete
    BY <2>1 DEF CleanupInv, CreateDaemonSet, ValidateWiper, WaitTimesOut, DeleteWiper, PreDelete,
                Go, objects
  <2>2. CASE /\ pc \notin {"validate", "cleanup"} /\ UNCHANGED <<wiper, faults>>
    BY <2>2 DEF CleanupInv
  <2>. QED
    BY <1>1, <2>1, <2>2
    DEF Step, NewPXClusterProvider, NoPXDaemonset, parseConfigFromDaemonset, getPXDaemonsets,
        DaemonSetsDeleted, DeleteDaemonSet, DaemonSetNotFound, DeleteClusterKind,
        ListConfigMap, DeleteConfigMaps, EnterNamespace, DeleteNamespaceKind,
        ComponentsDeleted, runPXNodeWiper, AwaitGone, CreateRefused, wipePXKvdb, Go, objects
<1>2. CASE Failure
  BY <1>2, FailureCounts DEF CleanupInv
<1>3. CASE JobRetry
  BY <1>3 DEF CleanupInv, JobRetry, objects
<1>4. CASE Environment
  BY <1>4 DEF CleanupInv, Environment, DaemonSetGone, WiperGone, WiperStep, WiperPodRemoved,
              objects, process
<1>5. CASE UNCHANGED vars
  BY <1>5 DEF CleanupInv, vars, objects
<1>. QED BY <1>1, <1>2, <1>3, <1>4, <1>5 DEF Next

(***************************************************************************)
(* The deferred function of runDaemonSet does what its comment says: no    *)
(* wiper outlives an operation in which no call failed.                    *)
(***************************************************************************)
THEOREM NoWiperLeftBehind == Spec => []WiperIsRemoved
<1>1. Init => CleanupInv
  BY DEF Init, CleanupInv
<1>2. CleanupInv => WiperIsRemoved
  BY DEF CleanupInv, WiperIsRemoved
<1>. QED BY <1>1, <1>2, CleanupInvInductive, PTL DEF Spec

-----------------------------------------------------------------------------
(***************************************************************************)
(* Without a failed call every DaemonSet runs until its own deletion, and  *)
(* an attempt that fails has deleted none.                                 *)
(***************************************************************************)
AllRunning == \A d \in DaemonSets : ds[d] = "running"
BrokenConfig == DaemonSets = {} \/ \E d \in DaemonSets : config[d] = "broken"

ReasonInv ==
    /\ faults \in Nat
    /\ faults = 0 =>
          /\ pc \in {"start", "parse", "listDS", "failed"} => AllRunning
          /\ pc = "parse" => \E d \in DaemonSets : Home[d] \in installed
          /\ pc = "daemonsets" => \A d \in DaemonSets \cap todo : ds[d] = "running"
          /\ pc = "failed" => BrokenConfig
          /\ pc # "crashed"

\* The steps of the process.
LEMMA StepKeepsReason ==
  ASSUME ReasonInv, Step
  PROVE  ReasonInv'
<1>. USE DEF ReasonInv, AllRunning, BrokenConfig, Go, objects, locals, given
<1>1. CASE NewPXClusterProvider
  BY <1>1 DEF NewPXClusterProvider, PXDaemonSets
<1>2. CASE NoPXDaemonset
  BY <1>2, DeleteAssumption DEF NoPXDaemonset, PXDaemonSets
<1>3. CASE parseConfigFromDaemonset
  BY <1>3 DEF parseConfigFromDaemonset, PXDaemonSets
<1>4. CASE getPXDaemonsets
  BY <1>4 DEF getPXDaemonsets, PXDaemonSets
<1>5. ASSUME NEW d \in DaemonSets, DeleteDaemonSet(d) PROVE ReasonInv'
  BY <1>5 DEF DeleteDaemonSet, Delete
<1>6. ASSUME NEW d \in DaemonSets, DaemonSetNotFound(d) PROVE ReasonInv'
  BY <1>6 DEF DaemonSetNotFound
<1>7. CASE /\ pc' \notin {"start", "parse", "listDS", "daemonsets", "failed", "crashed"}
           /\ UNCHANGED faults
  BY <1>7
<1>. QED
  BY <1>1, <1>2, <1>3, <1>4, <1>5, <1>6, <1>7
  DEF Step, DaemonSetsDeleted, DeleteClusterKind, ListConfigMap, DeleteConfigMaps,
      EnterNamespace, DeleteNamespaceKind, ComponentsDeleted, runPXNodeWiper, PreDelete,
      AwaitGone, CreateDaemonSet, CreateRefused, ValidateWiper, WaitTimesOut, DeleteWiper,
      wipePXKvdb

(***************************************************************************)
(* An operation in which no call failed returns an error only for lack of  *)
(* a DaemonSet or for a configuration that cannot be parsed, for any       *)
(* DaemonSets and any pace of the garbage collector.                       *)
(***************************************************************************)
THEOREM NoSelfInflictedFailure == Spec => []DeleteFailsForAReason
<1>1. Init => ReasonInv
  BY DEF Init, ReasonInv, AllRunning
<1>2. ReasonInv /\ [Next]_vars => ReasonInv'
  <2>. SUFFICES ASSUME ReasonInv, [Next]_vars PROVE ReasonInv'
    OBVIOUS
  <2>1. CASE Failure
    <3>1. Fault
      BY <2>1, Zenon
      DEF Failure, LookupFails, DeleteDaemonSetFails, DeleteClusterKindFails,
          ListConfigMapFails, DeleteConfigMapsFails, DeleteNamespaceKindFails,
          AwaitGoneMisled, WiperCallFails, wipePXKvdbFails, Crash, Fails
    <3>. QED BY <3>1 DEF Fault, ReasonInv
  <2>2. CASE JobRetry
    BY <2>2 DEF JobRetry, ReasonInv, AllRunning, objects
  <2>3. CASE Environment
    <3>1. ASSUME NEW d \in DaemonSets, DaemonSetGone(d) PROVE ReasonInv'
      BY <3>1 DEF DaemonSetGone, ReasonInv, AllRunning, BrokenConfig, process, locals, given
    <3>2. CASE UNCHANGED <<ds, process>>
      BY <3>2 DEF ReasonInv, AllRunning, BrokenConfig, process, locals, given
    <3>. QED
      BY <2>3, <3>1, <3>2 DEF Environment, WiperGone, WiperStep, WiperPodRemoved, objects
  <2>4. CASE UNCHANGED vars
    BY <2>4 DEF ReasonInv, AllRunning, BrokenConfig, vars, objects, locals, given
  <2>. QED BY <2>1, <2>2, <2>3, <2>4, StepKeepsReason DEF Next
<1>3. ReasonInv => DeleteFailsForAReason
  BY DEF ReasonInv, BrokenConfig, DeleteFailsForAReason
<1>. QED BY <1>1, <1>2, <1>3, PTL DEF Spec

-----------------------------------------------------------------------------
\* Types: the positions stay inside the lists of kinds, the restarts inside
\* the backoff limit.
LEMMA StepTypes ==
  ASSUME TypeOK, AffinityInv, Step, W!TypeOK'
  PROVE  TypeOK'
<1>. USE DeleteAssumption, KindsLength DEF TypeOK, Go, objects, locals, given
<1>1. CASE NewPXClusterProvider BY <1>1 DEF NewPXClusterProvider, PXDaemonSets
<1>2. CASE NoPXDaemonset BY <1>2 DEF NoPXDaemonset
<1>3. CASE parseConfigFromDaemonset BY <1>3 DEF parseConfigFromDaemonset, PXDaemonSets
<1>4. CASE getPXDaemonsets BY <1>4 DEF getPXDaemonsets, PXDaemonSets
<1>5. CASE DaemonSetsDeleted BY <1>5 DEF DaemonSetsDeleted
<1>6. ASSUME NEW d \in DaemonSets, DeleteDaemonSet(d) PROVE TypeOK'
  BY <1>6 DEF DeleteDaemonSet, Delete
<1>7. ASSUME NEW d \in DaemonSets, DaemonSetNotFound(d) PROVE TypeOK'
  BY <1>7 DEF DaemonSetNotFound
<1>8. CASE DeleteClusterKind BY <1>8 DEF DeleteClusterKind
<1>9. CASE ListConfigMap BY <1>9 DEF ListConfigMap
<1>10. CASE DeleteConfigMaps BY <1>10 DEF DeleteConfigMaps
<1>11. ASSUME NEW ns \in Namespaces, EnterNamespace(ns) PROVE TypeOK'
  BY <1>11 DEF EnterNamespace
<1>12. CASE DeleteNamespaceKind
  <2>1. nsLeft' \in [Namespaces -> SUBSET KindsOf(NamespaceKinds)]
    BY <1>12, ExceptSubset DEF DeleteNamespaceKind
  <2>. QED BY <1>12, <2>1 DEF DeleteNamespaceKind
<1>13. CASE ComponentsDeleted BY <1>13 DEF ComponentsDeleted
<1>14. CASE PreDelete BY <1>14 DEF PreDelete
<1>15. CASE AwaitGone BY <1>15 DEF AwaitGone
<1>16. CASE CreateDaemonSet BY <1>16 DEF CreateDaemonSet
<1>17. CASE CreateRefused BY <1>17 DEF CreateRefused
<1>18. CASE ValidateWiper BY <1>18 DEF ValidateWiper
<1>19. CASE WaitTimesOut BY <1>19 DEF WaitTimesOut
<1>20. CASE DeleteWiper BY <1>20 DEF DeleteWiper
<1>21. CASE wipePXKvdb BY <1>21 DEF wipePXKvdb
<1>22. CASE runPXNodeWiper BY <1>22 DEF runPXNodeWiper, AffinityInv
<1>. HIDE DEF TypeOK
<1>. QED
  BY <1>1, <1>2, <1>3, <1>4, <1>5, <1>6, <1>7, <1>8, <1>9, <1>10, <1>11, <1>12, <1>13,
     <1>14, <1>15, <1>16, <1>17, <1>18, <1>19, <1>20, <1>21, <1>22, Zenon DEF Step

\* Failed calls, restarts, the garbage collector and the nodes.
LEMMA OtherTypes ==
  ASSUME TypeOK, Failure \/ JobRetry \/ Environment, W!TypeOK'
  PROVE  TypeOK'
<1>. USE DeleteAssumption, KindsLength
     DEF TypeOK, Fails, Fault, objects, locals, given, process
<1>1. CASE LookupFails BY <1>1 DEF LookupFails
<1>2. ASSUME NEW d \in DaemonSets, DeleteDaemonSetFails(d) PROVE TypeOK'
  BY <1>2 DEF DeleteDaemonSetFails, Delete
<1>3. CASE DeleteClusterKindFails BY <1>3 DEF DeleteClusterKindFails
<1>4. CASE ListConfigMapFails BY <1>4 DEF ListConfigMapFails
<1>5. CASE DeleteConfigMapsFails BY <1>5 DEF DeleteConfigMapsFails
<1>6. CASE DeleteNamespaceKindFails
  <2>1. nsLeft' \in [Namespaces -> SUBSET KindsOf(NamespaceKinds)]
    BY <1>6, ExceptSubset DEF DeleteNamespaceKindFails
  <2>. QED BY <1>6, <2>1 DEF DeleteNamespaceKindFails
<1>7. CASE AwaitGoneMisled BY <1>7 DEF AwaitGoneMisled
<1>8. CASE WiperCallFails BY <1>8 DEF WiperCallFails
<1>9. CASE wipePXKvdbFails
  <2>1. kvdb' \in BOOLEAN
    BY <1>9, Zenon DEF wipePXKvdbFails
  <2>. QED BY <1>9, <2>1 DEF wipePXKvdbFails
<1>10. CASE Crash BY <1>10 DEF Crash
<1>11. CASE JobRetry
  <2>1. wiped' \in BOOLEAN
    BY <1>11, Zenon DEF JobRetry
  <2>. QED BY <1>11, <2>1 DEF JobRetry
<1>12. CASE Environment
  <2>1. ASSUME NEW d \in DaemonSets, DaemonSetGone(d) PROVE TypeOK'
    BY <2>1 DEF DaemonSetGone
  <2>2. CASE WiperGone
    BY <2>2 DEF WiperGone
  <2>3. ASSUME NEW n \in Nodes, WiperStep(n) \/ WiperPodRemoved(n) PROVE TypeOK'
    <3>1. UNCHANGED <<objects, process>>
      BY <2>3, Zenon DEF WiperStep, WiperPodRemoved
    <3>. QED BY <3>1
  <2>. HIDE DEF TypeOK
  <2>. QED BY <1>12, <2>1, <2>2, <2>3, Zenon DEF Environment
<1>. HIDE DEF TypeOK
<1>. QED
  BY <1>1, <1>2, <1>3, <1>4, <1>5, <1>6, <1>7, <1>8, <1>9, <1>10, <1>11, <1>12, Zenon
  DEF Failure

\* All variables keep their types.
THEOREM DeleteTypeCorrect == Spec => []TypeOK
<1>1. CleanInv => W!TypeOK
  BY DEF CleanInv, WP!WiperInv, WP!TypeOK, W!TypeOK, WP!ScriptLocations, W!ScriptLocations
<1>2. Init => TypeOK
  <2>. SUFFICES ASSUME Init PROVE TypeOK
    OBVIOUS
  <2>1. W!TypeOK
    BY <1>1, CleanInit
  <2>2. kvdb \in BOOLEAN /\ wiped \in BOOLEAN
    BY Zenon DEF Init
  <2>. QED BY <2>1, <2>2, DeleteAssumption, KindsLength DEF Init, TypeOK
<1>3. AffinityInv /\ CleanInv' /\ TypeOK /\ [Next]_vars => TypeOK'
  <2>. SUFFICES ASSUME AffinityInv, CleanInv', TypeOK, [Next]_vars PROVE TypeOK'
    OBVIOUS
  <2>1. W!TypeOK'
    BY <1>1, PTL
  <2>2. CASE UNCHANGED vars
    BY <2>1, <2>2 DEF TypeOK, vars, objects, locals, given
  <2>. QED BY <2>1, <2>2, StepTypes, OtherTypes, Zenon DEF Next
<1>. QED BY <1>2, <1>3, CleanInit, AffinityInductive, CleanInvInductive, PTL DEF Spec
=============================================================================
