----------------------------- MODULE NodeWiper ------------------------------
(***************************************************************************)
(* px-node-wiper.sh (cmd/px-node-wiper), run with -w -r as runPXNodeWiper  *)
(* (pkg/cluster/px/px.go) does, one container on every node.  The script   *)
(* stops the Portworx service, wipes the drives with pxctl if the host     *)
(* has it, removes /opt/pwx and then the contents of /etc/pwx, and only    *)
(* then creates the status file that its readiness probe reads.            *)
(*                                                                         *)
(* External: a container may be killed between and inside steps.  The      *)
(* kubelet starts it again, with a fresh file system of its own, on a host *)
(* that is in the state the last one left.                                 *)
(***************************************************************************)
EXTENDS Naturals

CONSTANTS
    Nodes,          \* the nodes of the cluster
    MaxNodeFaults   \* bound on failing commands and killed containers

ASSUME NodeWiperAssumption == MaxNodeFaults \in Nat

VARIABLES
    hadPxctl,   \* the nodes that had pxctl before the first wipe
    service,    \* service[n]: is the portworx service enabled?
    opt,        \* /opt/pwx: "installed" (with pxctl), "bare" or "removed"
    etc,        \* etc[n]: are there files in /etc/pwx?
    drives,     \* drives[n]: do the drives hold Portworx data?
    statusFile, \* statusFile[n]: /tmp/px-node-wipe-done of the container
    script,     \* where the script is, "none" without a container
    nodeFaults

host == <<service, opt, etc, drives>>
vars == <<hadPxctl, service, opt, etc, drives, statusFile, script, nodeFaults>>

ScriptLocations == {"none", "stop", "wipe", "removeOpt", "removeEtc", "touch", "sleep"}

Init ==
    /\ opt \in [Nodes -> {"installed", "bare"}]
    /\ hadPxctl = {n \in Nodes : opt[n] = "installed"}
    /\ service = [n \in Nodes |-> TRUE]
    /\ etc = [n \in Nodes |-> TRUE]
    /\ drives = [n \in Nodes |-> TRUE]
    /\ statusFile = [n \in Nodes |-> FALSE]
    /\ script = [n \in Nodes |-> "none"]
    /\ nodeFaults = 0

NodeFault == nodeFaults < MaxNodeFaults /\ nodeFaults' = nodeFaults + 1

At(n, here, there) ==
    /\ script[n] = here
    /\ script' = [script EXCEPT ![n] = there]
    /\ UNCHANGED hadPxctl

-----------------------------------------------------------------------------
\* The kubelet starts the container; the script removes its status file.
ContainerStarts(n) ==
    /\ At(n, "none", "stop")
    /\ statusFile' = [statusFile EXCEPT ![n] = FALSE]
    /\ UNCHANGED <<host, nodeFaults>>

\* systemctl stop and disable: failures are ignored.
StopService(n) ==
    /\ At(n, "stop", "wipe")
    /\ \/ service' = [service EXCEPT ![n] = FALSE]
       \/ UNCHANGED service
    /\ UNCHANGED <<opt, etc, drives, statusFile, nodeFaults>>

\* Faulty variant: a host without pxctl is an error.
WipeNeedsPxctl(n) ==
    /\ At(n, "wipe", "removeOpt")
    /\ opt[n] = "installed"
    /\ drives' = [drives EXCEPT ![n] = FALSE]
    /\ UNCHANGED <<service, opt, etc, statusFile, nodeFaults>>

\* pxctl sv node-wipe --all, skipped where pxctl does not exist.
WipeDrives(n) ==
    /\ At(n, "wipe", "removeOpt")
    /\ IF opt[n] = "installed" THEN drives' = [drives EXCEPT ![n] = FALSE]
                               ELSE UNCHANGED drives
    /\ UNCHANGED <<service, opt, etc, statusFile, nodeFaults>>

\* Faulty variant: the script goes on after a failed node-wipe.
WipeFailureIgnored(n) ==
    /\ At(n, "wipe", "removeOpt")
    /\ NodeFault
    /\ opt[n] = "installed"
    /\ UNCHANGED <<host, statusFile>>

\* Both ways to call node-wipe fail: fatal, and the container ends.
WipeFails(n) ==
    /\ At(n, "wipe", "none")
    /\ NodeFault
    /\ opt[n] = "installed"
    /\ UNCHANGED <<host, statusFile>>

\* Faulty variant: the status file is created before the configuration
\* files are removed.
RemoveOptTouchesEarly(n) ==
    /\ At(n, "removeOpt", "removeEtc")
    /\ opt' = [opt EXCEPT ![n] = "removed"]
    /\ statusFile' = [statusFile EXCEPT ![n] = TRUE]
    /\ UNCHANGED <<service, etc, drives, nodeFaults>>

\* rm -fr /opt/pwx
RemoveOpt(n) ==
    /\ At(n, "removeOpt", "removeEtc")
    /\ opt' = [opt EXCEPT ![n] = "removed"]
    /\ UNCHANGED <<service, etc, drives, statusFile, nodeFaults>>

\* It fails, perhaps after removing pxctl: fatal.
RemoveOptFails(n) ==
    /\ At(n, "removeOpt", "none")
    /\ NodeFault
    /\ \/ opt[n] # "removed" /\ opt' = [opt EXCEPT ![n] = "bare"]
       \/ UNCHANGED opt
    /\ UNCHANGED <<service, etc, drives, statusFile>>

\* Configuration files: removed, or fatal.
RemoveEtc(n) ==
    /\ At(n, "removeEtc", "touch")
    /\ etc' = [etc EXCEPT ![n] = FALSE]
    /\ UNCHANGED <<service, opt, drives, statusFile, nodeFaults>>

\* Faulty variant: the script goes on when the files cannot be removed.
RemoveEtcFailureIgnored(n) ==
    /\ At(n, "removeEtc", "touch")
    /\ NodeFault
    /\ UNCHANGED <<host, statusFile>>

RemoveEtcFails(n) ==
    /\ At(n, "removeEtc", "none")
    /\ NodeFault
    /\ UNCHANGED <<host, statusFile>>

Touch(n) ==
    /\ At(n, "touch", "sleep")
    /\ statusFile' = [statusFile EXCEPT ![n] = TRUE]
    /\ UNCHANGED <<host, nodeFaults>>

\* After 1800 seconds the script ends, and with it the container.
SleepEnds(n) ==
    /\ At(n, "sleep", "none")
    /\ statusFile' = [statusFile EXCEPT ![n] = FALSE]
    /\ UNCHANGED <<host, nodeFaults>>

\* External: what an interrupted command has done of its work.
HalfDone(n) ==
    /\ \/ script[n] = "wipe" /\ opt[n] = "installed"
          /\ drives' = [drives EXCEPT ![n] = FALSE] /\ UNCHANGED <<opt, etc>>
       \/ script[n] = "removeOpt" /\ opt[n] = "installed"
          /\ opt' = [opt EXCEPT ![n] = "bare"] /\ UNCHANGED <<drives, etc>>
       \/ script[n] = "removeEtc"
          /\ etc' = [etc EXCEPT ![n] = FALSE] /\ UNCHANGED <<drives, opt>>
       \/ UNCHANGED <<opt, etc, drives>>
    /\ UNCHANGED service

\* External: the container is gone, with its file system.
ContainerGone(n) ==
    /\ script[n] # "none"
    /\ script' = [script EXCEPT ![n] = "none"]
    /\ statusFile' = [statusFile EXCEPT ![n] = FALSE]
    /\ HalfDone(n)
    /\ UNCHANGED hadPxctl

ContainerKilled(n) == ContainerGone(n) /\ NodeFault

-----------------------------------------------------------------------------
Script(n) ==
    \/ StopService(n) \/ WipeDrives(n) \/ WipeFails(n)
    \/ RemoveOpt(n) \/ RemoveOptFails(n)
    \/ RemoveEtc(n) \/ RemoveEtcFails(n)
    \/ Touch(n) \/ SleepEnds(n)

Next == \E n \in Nodes : ContainerStarts(n) \/ Script(n) \/ ContainerKilled(n)

Spec == Init /\ [][Next]_vars

\* The kubelet restarts containers and the script runs on.
FairSpec == Spec /\ \A n \in Nodes : WF_vars(ContainerStarts(n)) /\ WF_vars(Script(n))

-----------------------------------------------------------------------------
\* Type invariant of the nodes and their containers.  Only a container whose
\* script has got to its end has a status file.
TypeOK ==
    /\ hadPxctl \subseteq Nodes
    /\ service \in [Nodes -> BOOLEAN]
    /\ opt \in [Nodes -> {"installed", "bare", "removed"}]
    /\ etc \in [Nodes -> BOOLEAN]
    /\ drives \in [Nodes -> BOOLEAN]
    /\ statusFile \in [Nodes -> BOOLEAN]
    /\ script \in [Nodes -> ScriptLocations]
    /\ \A n \in Nodes : statusFile[n] => script[n] = "sleep"
    /\ nodeFaults \in 0 .. MaxNodeFaults

\* A node that is clean: no binaries, no configuration, and no data if
\* there was a pxctl to wipe it.
Clean(n) ==
    /\ opt[n] = "removed"
    /\ ~etc[n]
    /\ n \in hadPxctl => ~drives[n]

(***************************************************************************)
(* The status file that makes the container ready exists only on a clean   *)
(* node.  Restarts matter: a container that finds /opt/pwx removed skips   *)
(* the drives, so they must have been wiped before pxctl was removed.      *)
(***************************************************************************)
ReadyMeansClean == \A n \in Nodes : statusFile[n] => Clean(n)

(***************************************************************************)
(* The tool that wipes the drives is not removed before it has done so     *)
(* (the order of the script), in whatever step a container is killed.      *)
(***************************************************************************)
PxctlOutlivesData ==
    \A n \in hadPxctl : opt[n] # "installed" => ~drives[n]

(***************************************************************************)
(* Every node gets clean, and stays so: the script may be rerun after any  *)
(* failure.                                                                *)
(***************************************************************************)
EventuallyClean == <>[](\A n \in Nodes : Clean(n))
=============================================================================
