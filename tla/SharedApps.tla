----------------------------- MODULE SharedApps -----------------------------
(***************************************************************************)
(* The scale-down and restore protocol of the applications that mount      *)
(* Portworx shared volumes: ScaleSharedAppsToZero and                      *)
(* RestoreScaledAppsReplicas (pkg/k8sutils/k8sutils.go) run by the block   *)
(* of Upgrade that scales down, upgrades and restores in a deferred call   *)
(* (pkg/cluster/px/px.go), and by the restoresharedapps operation          *)
(* (cmd/talisman/talisman.go).                                             *)
(*                                                                         *)
(* A process of Procs is one Kubernetes Job of the scripts: its pod can    *)
(* die between any two API calls, and a pod that dies or exits with an     *)
(* error is started again BackoffLimit times.  The API server is the       *)
(* shared store: an Update of a copy that is no longer the stored object   *)
(* is refused, an Update can be applied and its reply lost.                *)
(***************************************************************************)
EXTENDS Naturals, FiniteSets

CONSTANTS
    Deployments,    \* Deployments on a shared storage class
    StatefulSets,   \* StatefulSets on a shared storage class
    Bare,           \* the apps whose object has no annotations map (nil in Go)
    Listed,         \* Listed[a]: how many shared storage classes a uses
    Procs,          \* the talisman Jobs
    Upgrades,       \* the Jobs of operation upgrade; the others are restores
    NoApp,          \* "no application", the value of cur outside the loop
    NoCount,        \* annotation absent
    Garbled,        \* annotation that intstr.Parse does not read as a number
    MaxReplicas,    \* bound on replica counts
    ScaleDownMode,  \* -scaledownsharedapps: "auto", "on" or "off"
    MayBeGarbled,   \* apps whose annotation may be garbled at the start
    Overlap,        \* may a restore run while an upgrade does?
    BackoffLimit,   \* backoffLimit of the Job: restarts of a failed pod
    MaxFaults,      \* bound on failed API calls, time-outs and crashes
    MaxUserOps      \* bound on edits by the applications' owners

Apps == Deployments \cup StatefulSets
Restores == Procs \ Upgrades
Counts == 0 .. MaxReplicas
Annotations == Counts \cup {NoCount, Garbled}

ASSUME AppsAssumption ==
    /\ Deployments \cap StatefulSets = {}
    /\ Bare \subseteq Apps
    /\ MayBeGarbled \subseteq Apps \ Bare
    /\ Listed \in [Apps -> Nat]
    /\ NoApp \notin Apps
    /\ Upgrades \subseteq Procs

ASSUME BoundsAssumption ==
    /\ MaxReplicas \in Nat
    /\ NoCount \notin Nat /\ Garbled \notin Nat /\ NoCount # Garbled
    /\ ScaleDownMode \in {"auto", "on", "off"}
    /\ Overlap \in BOOLEAN
    /\ BackoffLimit \in Nat /\ MaxFaults \in Nat /\ MaxUserOps \in Nat

VARIABLES
    \* the objects the API server stores
    exists,     \* exists[a]: the object has not been deleted
    replicas,   \* replicas[a]: spec.replicas
    saved,      \* saved[a]: the replica-memory annotation
    \* the processes
    pc,         \* where the process is
    pass,       \* "scale" in ScaleSharedAppsToZero, "restore" in RestoreScaledAppsReplicas
    todo,       \* todo[p][a]: occurrences of a left in the listing the loop walks
    cur,        \* the app of the current iteration
    copy,       \* the copy Get returned to the current attempt
    current,    \* current[p]: copy[p] still has the stored resourceVersion
    err,        \* err[p]: the process will exit with a non-zero code
    attempts,   \* attempts[p]: restarts of the pod so far
    \* bookkeeping
    intended,   \* intended[a]: the count the owner of a asked for
    hidden,     \* the apps that some listing has lost
    faults,
    userOps

objects  == <<exists, replicas, saved>>
control  == <<pc, pass, err>>
loop     == <<todo, cur, copy>>
budgets  == <<faults, userOps>>
vars == <<exists, replicas, saved, pc, pass, todo, cur, copy, current, err,
          attempts, intended, hidden, faults, userOps>>

Locations == {"idle", "start", "list", "pick", "get", "retry", "update",
              "rollout", "done", "failed", "returned", "crashed", "panicked"}

\* The locations at which the process has ended.
Ended == {"done", "failed", "returned", "crashed", "panicked"}

InLoop == {"get", "retry", "update"}

Copies == [replicas : Counts, saved : Annotations]
NoCopy == [replicas |-> 0, saved |-> NoCount]

-----------------------------------------------------------------------------
Init ==
    /\ exists = [a \in Apps |-> TRUE]
    /\ replicas \in [Apps -> Counts]
    /\ saved \in [Apps -> {NoCount, Garbled}]
    /\ \A a \in Apps : saved[a] = Garbled => a \in MayBeGarbled
    /\ intended = replicas
    /\ hidden = {}
    /\ pc = [p \in Procs |-> "idle"]
    /\ pass = [p \in Procs |-> "restore"]
    /\ todo = [p \in Procs |-> [a \in Apps |-> 0]]
    /\ cur = [p \in Procs |-> NoApp]
    /\ copy = [p \in Procs |-> NoCopy]
    /\ current = [p \in Procs |-> FALSE]
    /\ err = [p \in Procs |-> FALSE]
    /\ attempts = [p \in Procs |-> 0]
    /\ faults = 0
    /\ userOps = 0

Fault == faults < MaxFaults /\ faults' = faults + 1

Goto(p, l) == pc' = [pc EXCEPT ![p] = l]

\* The copy of an attempt goes out of scope when the attempt ends, the app of
\* an iteration when the iteration does.
DropCopy(p) == copy' = [copy EXCEPT ![p] = NoCopy]

DropApp(p) == DropCopy(p) /\ cur' = [cur EXCEPT ![p] = NoApp]

DropListing(p) == DropApp(p) /\ todo' = [todo EXCEPT ![p] = [a \in Apps |-> 0]]

Stale(p) == current' = [current EXCEPT ![p] = FALSE]

(***************************************************************************)
(* A write of the stored object of a: every copy of it that a process      *)
(* holds stops being current.                                              *)
(***************************************************************************)
Write(a, r, s) ==
    /\ replicas' = [replicas EXCEPT ![a] = r]
    /\ saved' = [saved EXCEPT ![a] = s]
    /\ current' = [q \in Procs |-> current[q] /\ cur[q] # a]

\* Faulty variant of PassError: the restore returns nil on an error.
PassErrorIgnored(p) ==
    /\ DropListing(p)
    /\ Stale(p)
    /\ Goto(p, IF pass[p] = "scale" THEN "list" ELSE "done")
    /\ pass' = [pass EXCEPT ![p] = "restore"]
    /\ err' = [err EXCEPT ![p] = TRUE]

(***************************************************************************)
(* A pass returns an error to its caller.  An error of the scale-down      *)
(* makes Upgrade return it, after the deferred restore; an error of the    *)
(* deferred restore is only logged; one of the restoresharedapps operation *)
(* is fatal.                                                               *)
(***************************************************************************)
PassError(p) ==
    /\ DropListing(p)
    /\ Stale(p)
    /\ IF pass[p] = "scale"
       THEN /\ Goto(p, "list")
            /\ pass' = [pass EXCEPT ![p] = "restore"]
            /\ err' = [err EXCEPT ![p] = TRUE]
       ELSE /\ Goto(p, "failed")
            /\ err' = [err EXCEPT ![p] = err[p] \/ p \notin Upgrades]
            /\ UNCHANGED pass

-----------------------------------------------------------------------------
\* The pod of the Job starts.
Start(p) ==
    /\ pc[p] = "idle"
    /\ Overlap \/ p \in Upgrades \/ \A q \in Upgrades : pc[q] \in Ended
    /\ Goto(p, "start")
    /\ UNCHANGED <<objects, pass, err, loop, current, attempts, intended, hidden, budgets>>

\* Upgrade returns before the scale-down: the namespaces it is in, the service
\* lookup, the pre-flight checks, unmanaged pods, the daemonset's config.  This
\* is an ordinary outcome of it.
ChecksFail(p) == p \in Upgrades /\ UNCHANGED faults

\* restoresharedapps gets no client of the API server, which is a fault.
NewFails(p) == p \in Restores /\ Fault

ReturnEarly(p) ==
    /\ pc[p] = "start"
    /\ ChecksFail(p) \/ NewFails(p)
    /\ Goto(p, "returned")
    /\ err' = [err EXCEPT ![p] = TRUE]
    /\ UNCHANGED <<objects, pass, loop, current, attempts, intended, hidden, userOps>>

isScaleDownOfSharedAppsRequired(isMajorVerUpgrade) ==
    IF ScaleDownMode = "auto" THEN isMajorVerUpgrade ELSE ScaleDownMode = "on"

\* Upgrade without the scale-down block: no application is touched.
SkipScaleDown(p) ==
    /\ pc[p] = "start"
    /\ p \in Upgrades
    /\ \E drain \in BOOLEAN : ~isScaleDownOfSharedAppsRequired(drain)
    /\ Goto(p, "returned")
    /\ \E e \in BOOLEAN : err' = [err EXCEPT ![p] = e]
    /\ UNCHANGED <<objects, pass, loop, current, attempts, intended, hidden, budgets>>

\* Upgrade enters the scale-down block; restoresharedapps calls the restore.
Enter(p) ==
    /\ pc[p] = "start"
    /\ p \in Upgrades => \E drain \in BOOLEAN : isScaleDownOfSharedAppsRequired(drain)
    /\ Goto(p, "list")
    /\ pass' = [pass EXCEPT ![p] = IF p \in Upgrades THEN "scale" ELSE "restore"]
    /\ UNCHANGED <<objects, err, loop, current, attempts, intended, hidden, budgets>>

(***************************************************************************)
(* GetPXSharedApps: an app appears once for each of its shared classes.    *)
(* The lookups of the claims of an app skip the app when they fail.        *)
(***************************************************************************)
Listing(lost) ==
    [a \in Apps |-> IF exists[a] /\ a \notin lost THEN Listed[a] ELSE 0]

List(p) ==
    /\ pc[p] = "list"
    /\ \/ /\ todo' = [todo EXCEPT ![p] = Listing({})]
          /\ UNCHANGED <<faults, hidden>>
       \/ /\ Fault
          /\ \E a \in Apps : /\ todo' = [todo EXCEPT ![p] = Listing({a})]
                            /\ hidden' = hidden \cup {a}
    /\ Goto(p, "pick")
    /\ UNCHANGED <<objects, pass, err, cur, copy, current, attempts, intended, userOps>>

ListError(p) ==
    /\ pc[p] = "list"
    /\ Fault
    /\ PassError(p)
    /\ UNCHANGED <<objects, attempts, intended, hidden, userOps>>

\* The two loops of a pass: the Deployments first, then the StatefulSets.
Remaining(p) == {a \in Apps : todo[p][a] > 0}

NextApps(p) ==
    IF Remaining(p) \cap Deployments # {}
    THEN Remaining(p) \cap Deployments
    ELSE Remaining(p)

Pick(p, a) ==
    /\ pc[p] = "pick"
    /\ a \in NextApps(p)
    /\ todo' = [todo EXCEPT ![p][a] = @ - 1]
    /\ cur' = [cur EXCEPT ![p] = a]
    /\ Goto(p, "get")
    /\ UNCHANGED <<objects, pass, err, copy, current, attempts, intended, hidden, budgets>>

\* The pass walked its whole listing and returns nil.
EndPass(p) ==
    /\ pc[p] = "pick"
    /\ Remaining(p) = {}
    /\ Goto(p, IF pass[p] = "scale" THEN "rollout" ELSE "done")
    /\ UNCHANGED <<objects, pass, err, loop, current, attempts, intended, hidden, budgets>>

-----------------------------------------------------------------------------
\* Faulty variant: the check for zero replicas in the wrong loop.
RestoreSkipsZero(a) == ~exists[a] \/ a \in Bare \/ saved[a] = NoCount \/ replicas[a] = 0

\* The Get of an attempt finds nothing to do: the app is done.
ScaleSkips(a) == ~exists[a] \/ (a \in Deployments /\ replicas[a] = 0)

RestoreSkips(a) == ~exists[a] \/ a \in Bare \/ saved[a] = NoCount

Skip(p) ==
    /\ pc[p] \in {"get", "retry"}
    /\ IF pass[p] = "scale" THEN ScaleSkips(cur[p]) ELSE RestoreSkips(cur[p])
    /\ Goto(p, "pick")
    /\ DropApp(p)
    /\ UNCHANGED <<objects, pass, err, todo, current, attempts, intended, hidden, budgets>>

\* The attempt goes on with the copy Get returned.
TakeCopy(p) ==
    /\ copy' = [copy EXCEPT ![p] = [replicas |-> replicas[cur[p]], saved |-> saved[cur[p]]]]
    /\ current' = [current EXCEPT ![p] = TRUE]
    /\ Goto(p, "update")
    /\ UNCHANGED <<objects, pass, err, todo, cur, attempts, intended, hidden, budgets>>

ScaleGet(p) ==
    /\ pc[p] \in {"get", "retry"}
    /\ pass[p] = "scale"
    /\ ~ScaleSkips(cur[p])
    /\ cur[p] \notin Bare
    /\ TakeCopy(p)

\* Writing the count into a nil annotations map ends the process: the panic is
\* in the goroutine of DoRetryWithTimeout, so no deferred call of Upgrade runs.
ScalePanics(p) ==
    /\ pc[p] \in {"get", "retry"}
    /\ pass[p] = "scale"
    /\ ~ScaleSkips(cur[p])
    /\ cur[p] \in Bare
    /\ Goto(p, "panicked")
    /\ DropListing(p)
    /\ UNCHANGED <<objects, pass, err, current, attempts, intended, hidden, budgets>>

\* Faulty variant of RestoreGet: the parsed value's type is not checked.
RestoreGetUnparsed(p) ==
    /\ pc[p] \in {"get", "retry"}
    /\ pass[p] = "restore"
    /\ ~RestoreSkips(cur[p])
    /\ TakeCopy(p)

RestoreGet(p) ==
    /\ pc[p] \in {"get", "retry"}
    /\ pass[p] = "restore"
    /\ ~RestoreSkips(cur[p])
    /\ saved[cur[p]] # Garbled
    /\ TakeCopy(p)

\* The annotation is not a number: no retry, the pass ends here.
RestoreUnparsable(p) ==
    /\ pc[p] \in {"get", "retry"}
    /\ pass[p] = "restore"
    /\ ~RestoreSkips(cur[p])
    /\ saved[cur[p]] = Garbled
    /\ PassError(p)
    /\ UNCHANGED <<objects, attempts, intended, hidden, budgets>>

\* Faulty variant of Sent: the restore removes the annotation only.
SentWithoutReplicas(p) ==
    IF pass[p] = "scale"
    THEN [replicas |-> 0, saved |-> copy[p].replicas]
    ELSE [replicas |-> copy[p].replicas, saved |-> NoCount]

\* What the attempt sends: the count moves into the annotation, or back.
Sent(p) ==
    IF pass[p] = "scale"
    THEN [replicas |-> 0, saved |-> copy[p].replicas]
    ELSE [replicas |-> copy[p].saved, saved |-> NoCount]

\* Faulty variant of Accepts: the update carries no resourceVersion.
AcceptsAnything(p) == exists[cur[p]]

\* The API server stores an Update only of the current object.
Accepts(p) == current[p]

Update(p) ==
    /\ pc[p] = "update"
    /\ Accepts(p)
    /\ Write(cur[p], Sent(p).replicas, Sent(p).saved)
    /\ Goto(p, "pick")
    /\ DropApp(p)
    /\ UNCHANGED <<exists, pass, err, todo, attempts, intended, hidden, budgets>>

\* The Update is stored but the caller sees an error, and retries.
UpdateReplyLost(p) ==
    /\ pc[p] = "update"
    /\ Accepts(p)
    /\ Fault
    /\ Write(cur[p], Sent(p).replicas, Sent(p).saved)
    /\ Goto(p, "retry")
    /\ DropCopy(p)
    /\ UNCHANGED <<exists, pass, err, todo, cur, attempts, intended, hidden, userOps>>

\* The object changed or was deleted since Get: conflict or NotFound, retried.
UpdateRefused(p) ==
    /\ pc[p] = "update"
    /\ ~Accepts(p)
    /\ Goto(p, "retry")
    /\ DropCopy(p)
    /\ Stale(p)
    /\ UNCHANGED <<objects, pass, err, todo, cur, attempts, intended, hidden, budgets>>

\* A Get or an Update fails and nothing is stored; retried.
CallFails(p) ==
    /\ pc[p] \in InLoop
    /\ Fault
    /\ Goto(p, "retry")
    /\ DropCopy(p)
    /\ Stale(p)
    /\ UNCHANGED <<objects, pass, err, todo, cur, attempts, intended, hidden, userOps>>

\* DoRetryWithTimeout finds its deadline passed after a failed attempt.
TimeOut(p) ==
    /\ pc[p] = "retry"
    /\ Fault
    /\ PassError(p)
    /\ UNCHANGED <<objects, attempts, intended, hidden, userOps>>

\* The wait for the volumes and upgradePX, then the deferred restore.
Rollout(p) ==
    /\ pc[p] = "rollout"
    /\ \E e \in BOOLEAN : err' = [err EXCEPT ![p] = e]
    /\ pass' = [pass EXCEPT ![p] = "restore"]
    /\ Goto(p, "list")
    /\ UNCHANGED <<objects, loop, current, attempts, intended, hidden, budgets>>

-----------------------------------------------------------------------------
\* The pod dies (eviction, node failure, deletion of the Job).
Crash(p) ==
    /\ pc[p] \notin Ended \cup {"idle"}
    /\ Fault
    /\ Goto(p, "crashed")
    /\ DropListing(p)
    /\ Stale(p)
    /\ UNCHANGED <<objects, pass, err, attempts, intended, hidden, userOps>>

\* The Job starts the failed pod again, with nothing of its memory.  Without
\* Overlap the script of the restore has deleted the Job of the upgrade.
Failed(p) == pc[p] \in {"crashed", "panicked"} \/ (pc[p] \in Ended /\ err[p])

JobRetry(p) ==
    /\ Failed(p)
    /\ attempts[p] < BackoffLimit
    /\ Overlap \/ p \in Restores \/ \A q \in Restores : pc[q] = "idle"
    /\ attempts' = [attempts EXCEPT ![p] = @ + 1]
    /\ Goto(p, "start")
    /\ err' = [err EXCEPT ![p] = FALSE]
    /\ UNCHANGED <<objects, pass, loop, current, intended, hidden, budgets>>

\* The owner scales an app that is not scaled down for an upgrade.
UserScale(a) ==
    /\ exists[a]
    /\ saved[a] \notin Counts
    /\ userOps < MaxUserOps
    /\ userOps' = userOps + 1
    /\ \E r \in Counts \ {replicas[a]} :
          /\ Write(a, r, saved[a])
          /\ intended' = [intended EXCEPT ![a] = r]
    /\ UNCHANGED <<exists, control, loop, attempts, hidden, faults>>

UserDelete(a) ==
    /\ exists[a]
    /\ userOps < MaxUserOps
    /\ userOps' = userOps + 1
    /\ exists' = [exists EXCEPT ![a] = FALSE]
    /\ current' = [q \in Procs |-> current[q] /\ cur[q] # a]
    /\ UNCHANGED <<replicas, saved, control, loop, attempts, intended, hidden, faults>>

-----------------------------------------------------------------------------
\* The steps a running process takes by itself.
Step(p) ==
    \/ SkipScaleDown(p) \/ Enter(p) \/ List(p)
    \/ \E a \in Apps : Pick(p, a)
    \/ EndPass(p) \/ Skip(p)
    \/ ScaleGet(p) \/ ScalePanics(p) \/ RestoreGet(p) \/ RestoreUnparsable(p)
    \/ Update(p) \/ UpdateRefused(p)
    \/ Rollout(p)

Failure(p) ==
    \/ ReturnEarly(p) \/ ListError(p) \/ CallFails(p) \/ UpdateReplyLost(p)
    \/ TimeOut(p) \/ Crash(p)

Next ==
    \/ \E p \in Procs : Start(p) \/ JobRetry(p) \/ Step(p) \/ Failure(p)
    \/ \E a \in Apps : UserScale(a) \/ UserDelete(a)

Spec == Init /\ [][Next]_vars

(***************************************************************************)
(* A running process takes its next step; the Job controller restarts a    *)
(* failed pod; the operator runs the restore operation.                    *)
(***************************************************************************)
Fairness ==
    \A p \in Procs :
       WF_vars(Step(p)) /\ WF_vars(JobRetry(p)) /\ WF_vars(Start(p))

FairSpec == Spec /\ Fairness

-----------------------------------------------------------------------------
(***************************************************************************)
(* Type invariant.  In particular a replica count is always a number: the  *)
(* restore never writes an annotation it could not parse into              *)
(* spec.replicas (the intstr.Int check of RestoreScaledAppsReplicas).      *)
(***************************************************************************)
TypeOK ==
    /\ exists \in [Apps -> BOOLEAN]
    /\ replicas \in [Apps -> Counts]
    /\ saved \in [Apps -> Annotations]
    /\ intended \in [Apps -> Counts]
    /\ hidden \subseteq Apps
    /\ pc \in [Procs -> Locations]
    /\ pass \in [Procs -> {"scale", "restore"}]
    /\ todo \in [Procs -> [Apps -> Nat]]
    /\ cur \in [Procs -> Apps \cup {NoApp}]
    /\ copy \in [Procs -> Copies]
    /\ current \in [Procs -> BOOLEAN]
    /\ err \in [Procs -> BOOLEAN]
    /\ attempts \in [Procs -> 0 .. BackoffLimit]
    /\ faults \in 0 .. MaxFaults
    /\ userOps \in 0 .. MaxUserOps

\* The count the owner asked for can be read off the object of a.
Recoverable(a) ==
    exists[a] => IF saved[a] \in Counts THEN saved[a] = intended[a]
                                        ELSE replicas[a] = intended[a]

\* a is held at zero for an upgrade.
HeldDown(a) == exists[a] /\ saved[a] \in Counts

(***************************************************************************)
(* Whatever crashes, retries, lost replies, concurrent upgrades and        *)
(* restores and edits by the owner happen, the original replica count of a *)
(* Deployment is in its annotation while it is scaled down and in          *)
(* spec.replicas otherwise.  Rests on the "already scaled down to 0" check *)
(* and on Update being refused for a stale copy.                           *)
(***************************************************************************)
DeploymentsRecoverable == \A d \in Deployments : Recoverable(d)

(***************************************************************************)
(* When every process either never ran or ended with a restore that        *)
(* returned nil, no application is held at zero: the deferred restore of   *)
(* Upgrade covers everything the scale-down touched, also when the         *)
(* scale-down stopped half-way.  Only an application that a listing lost   *)
(* (sched-ops skips an app whose claims it cannot look up) is excepted.    *)
(***************************************************************************)
RestoreComplete ==
    (\A p \in Procs : pc[p] \in {"idle", "done"}) => \A a \in Apps \ hidden : ~HeldDown(a)

(***************************************************************************)
(* The recovery procedure of cmd/talisman/README.md: an upgrade may be     *)
(* interrupted anywhere, but once the restore operation has been run after *)
(* it every application that its listing showed is released and every such *)
(* Deployment is back at its original count.                               *)
(***************************************************************************)
EventuallyRestored ==
    <>[](\A a \in Apps \ hidden :
             /\ ~HeldDown(a)
             /\ a \in Deployments /\ exists[a] => replicas[a] = intended[a])

\* What the stored object of a says to its owner.
StateOf(a) ==
    IF ~exists[a] THEN "gone" ELSE IF saved[a] \in Counts THEN "held" ELSE "free"

CountOf(a) == IF saved[a] \in Counts THEN saved[a] ELSE replicas[a]

Memory == INSTANCE ReplicaMemory
    WITH Workloads <- Deployments, Sizes <- Counts,
         state <- [d \in Deployments |-> StateOf(d)],
         count <- [d \in Deployments |-> CountOf(d)]

(***************************************************************************)
(* For Deployments the protocol implements ReplicaMemory: whatever the     *)
(* Jobs do, at whatever point they die, are retried or run into each       *)
(* other, an Update of theirs takes hold of a Deployment with replicas or  *)
(* lets it go with the count it had, and nothing else (the Get, change and *)
(* Update of ScaleSharedAppsToZero and RestoreScaledAppsReplicas).         *)
(***************************************************************************)
ImplementsReplicaMemory == Memory!Spec

(***************************************************************************)
(* What cmd/talisman/README.md says of all shared applications: they can   *)
(* be restored "back to their original replica count".  The loop over the  *)
(* StatefulSets has no "already scaled down" check, and this fails.        *)
(***************************************************************************)
StatefulSetsRecoverable == \A s \in StatefulSets : Recoverable(s)

(***************************************************************************)
(* "always restore the replicas" (the deferred call of Upgrade): an        *)
(* upgrade that ends by itself leaves nothing scaled down.  A scale-down   *)
(* that panics on an object without annotations does.                      *)
(***************************************************************************)
AlwaysRestored ==
    (\A p \in Procs : pc[p] \in {"idle", "done", "panicked"})
    => \A a \in Apps : ~HeldDown(a)
=============================================================================
