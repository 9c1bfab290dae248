-------------------------- MODULE SharedAppsProofs --------------------------
(***************************************************************************)
(* Proofs about SharedApps, for every set of applications and processes    *)
(* and every bound.                                                        *)
(***************************************************************************)
EXTENDS SharedApps, TLAPS

(***************************************************************************)
(* The inductive invariant.  A process in an iteration has an app of its   *)
(* listing; the copy an attempt is about to send passed the checks that    *)
(* follow Get; and as long as it is current it is the stored object.  A    *)
(* Deployment with a saved count is at zero, so a copy that passed the     *)
(* zero check cannot overwrite a saved count.                              *)
(***************************************************************************)
LoopOK ==
    \A p \in Procs : pc[p] \in InLoop => cur[p] \in Apps

ReadyOK ==
    \A p \in Procs : pc[p] = "update" =>
        IF pass[p] = "scale"
        THEN cur[p] \in Deployments => copy[p].replicas > 0
        ELSE copy[p].saved \in Counts

CopyOK ==
    \A p \in Procs : pc[p] = "update" /\ current[p] =>
        /\ exists[cur[p]]
        /\ copy[p].replicas = replicas[cur[p]]
        /\ copy[p].saved = saved[cur[p]]

HeldAtZero ==
    \A d \in Deployments : saved[d] \in Counts => replicas[d] = 0

TypeInv == TypeOK /\ LoopOK /\ ReadyOK

SafeInv == CopyOK /\ HeldAtZero /\ DeploymentsRecoverable

IInv == TypeInv /\ SafeInv

\* The initial states satisfy the typing part of the invariant.
LEMMA InitTypeInv == Init => TypeInv
  BY AppsAssumption, BoundsAssumption
  DEF Init, TypeInv, TypeOK, LoopOK, ReadyOK, Annotations, Counts, Copies, NoCopy,
      Locations, InLoop

USE DEF Locations, InLoop, Goto

LEMMA NoCopyTyped == NoCopy \in Copies
  BY BoundsAssumption DEF NoCopy, Copies, Counts, Annotations

\* The steps of a process that reach no Update keep the typing part.
LEMMA TypeInvControl ==
  ASSUME TypeInv, NEW p \in Procs,
         Start(p) \/ JobRetry(p) \/ SkipScaleDown(p) \/ Enter(p) \/ Rollout(p)
         \/ EndPass(p) \/ ReturnEarly(p)
  PROVE  TypeInv'
<1>1. CASE Start(p)
  BY <1>1 DEF TypeInv, TypeOK, LoopOK, ReadyOK, Start, objects, loop, budgets
<1>2. CASE JobRetry(p)
  BY <1>2, BoundsAssumption DEF TypeInv, TypeOK, LoopOK, ReadyOK, JobRetry, Failed, Ended, objects, loop, budgets
<1>3. CASE SkipScaleDown(p)
  BY <1>3 DEF TypeInv, TypeOK, LoopOK, ReadyOK, SkipScaleDown, objects, loop, budgets
<1>4. CASE Enter(p)
  BY <1>4 DEF TypeInv, TypeOK, LoopOK, ReadyOK, Enter, objects, loop, budgets
<1>5. CASE Rollout(p)
  BY <1>5 DEF TypeInv, TypeOK, LoopOK, ReadyOK, Rollout, objects, loop, budgets
<1>6. CASE EndPass(p)
  BY <1>6 DEF TypeInv, TypeOK, LoopOK, ReadyOK, EndPass, objects, loop, budgets
<1>7. CASE ReturnEarly(p)
  BY <1>7, BoundsAssumption DEF TypeInv, TypeOK, LoopOK, ReadyOK, ReturnEarly, ChecksFail, NewFails, Fault, objects, loop
<1> QED BY <1>1, <1>2, <1>3, <1>4, <1>5, <1>6, <1>7

\* A pass that ends with an error keeps the typing part.
LEMMA TypeInvPassError ==
  ASSUME TypeInv, NEW p \in Procs,
         ListError(p) \/ RestoreUnparsable(p) \/ TimeOut(p)
  PROVE  TypeInv'
<1>1. faults' \in 0 .. MaxFaults
  BY BoundsAssumption
  DEF TypeInv, TypeOK, ListError, RestoreUnparsable, TimeOut, Fault, budgets
<1>2. PassError(p) /\ UNCHANGED <<objects, attempts, intended, hidden, userOps>>
  BY DEF ListError, RestoreUnparsable, TimeOut, budgets
<1>3. /\ pc' \in [Procs -> Locations]
      /\ pass' \in [Procs -> {"scale", "restore"}]
      /\ err' \in [Procs -> BOOLEAN]
      /\ pc'[p] \in {"list", "failed"}
      /\ \A q \in Procs \ {p} : pc'[q] = pc[q] /\ pass'[q] = pass[q]
  BY <1>2 DEF PassError, TypeInv, TypeOK
<1>4. /\ todo' \in [Procs -> [Apps -> Nat]]
      /\ cur' \in [Procs -> Apps \cup {NoApp}]
      /\ copy' \in [Procs -> Copies]
      /\ current' \in [Procs -> BOOLEAN]
      /\ \A q \in Procs \ {p} : cur'[q] = cur[q] /\ copy'[q] = copy[q]
  BY <1>2, NoCopyTyped DEF PassError, DropListing, DropApp, DropCopy, Stale, TypeInv, TypeOK
<1> QED
  BY <1>1, <1>2, <1>3, <1>4 DEF TypeInv, TypeOK, LoopOK, ReadyOK, objects

\* The steps of a loop that store nothing keep the typing part.
LEMMA TypeInvLoop ==
  ASSUME TypeInv, NEW p \in Procs,
         List(p) \/ (\E a \in Apps : Pick(p, a)) \/ Skip(p) \/ ScaleGet(p)
         \/ ScalePanics(p) \/ RestoreGet(p) \/ UpdateRefused(p) \/ CallFails(p)
         \/ Crash(p)
  PROVE  TypeInv'
<1>1. CASE List(p)
  <2>1. \A h : Listing(h) \in [Apps -> Nat]
    BY AppsAssumption DEF Listing
  <2>2. faults' \in 0 .. MaxFaults
    BY <1>1, BoundsAssumption DEF TypeInv, TypeOK, List, Fault
  <2>3. todo' \in [Procs -> [Apps -> Nat]]
    <3>1. PICK h : todo' = [todo EXCEPT ![p] = Listing(h)]
      BY <1>1, Zenon DEF List
    <3> QED
      BY <2>1, <3>1 DEF TypeInv, TypeOK
  <2> QED
    BY <1>1, <2>2, <2>3 DEF TypeInv, TypeOK, LoopOK, ReadyOK, List, objects
<1>2. CASE \E a \in Apps : Pick(p, a)
  <2>1. PICK a \in Apps : Pick(p, a)
    BY <1>2
  <2>2. todo[p][a] \in Nat /\ todo[p][a] > 0
    BY <2>1 DEF TypeInv, TypeOK, Pick, NextApps, Remaining
  <2>3. todo' \in [Procs -> [Apps -> Nat]]
    BY <2>1, <2>2 DEF TypeInv, TypeOK, Pick
  <2>4. TypeOK'
    BY <2>1, <2>3 DEF TypeInv, TypeOK, Pick, objects, budgets
  <2>5. LoopOK' /\ ReadyOK'
    BY <2>1 DEF TypeInv, TypeOK, LoopOK, ReadyOK, Pick
  <2> QED
    BY <2>4, <2>5 DEF TypeInv
<1>3. CASE Skip(p)
  BY <1>3, NoCopyTyped DEF TypeInv, TypeOK, LoopOK, ReadyOK, Skip, DropApp, DropCopy, objects, budgets
<1>4. CASE ScaleGet(p)
  <2>1. cur[p] \in Apps
    BY <1>4 DEF TypeInv, LoopOK, ScaleGet
  <2>2. cur[p] \in Deployments => replicas[cur[p]] > 0
    BY <1>4, <2>1 DEF TypeInv, TypeOK, ScaleGet, ScaleSkips, Counts
  <2> QED
    BY <1>4, <2>1, <2>2 DEF TypeInv, TypeOK, LoopOK, ReadyOK, ScaleGet, TakeCopy,
                            Copies, objects, budgets
<1>5. CASE ScalePanics(p)
  BY <1>5, NoCopyTyped DEF TypeInv, TypeOK, LoopOK, ReadyOK, ScalePanics, DropListing, DropApp,
              DropCopy, objects, budgets
<1>6. CASE RestoreGet(p)
  <2>1. cur[p] \in Apps
    BY <1>6 DEF TypeInv, LoopOK, RestoreGet
  <2>2. saved[cur[p]] \in Counts
    BY <1>6, <2>1 DEF TypeInv, TypeOK, RestoreGet, RestoreSkips, Annotations
  <2> QED
    BY <1>6, <2>1, <2>2 DEF TypeInv, TypeOK, LoopOK, ReadyOK, RestoreGet, TakeCopy,
                            Copies, objects, budgets
<1>7. CASE UpdateRefused(p)
  BY <1>7, NoCopyTyped DEF TypeInv, TypeOK, LoopOK, ReadyOK, UpdateRefused, DropCopy, Stale, objects, budgets
<1>8. CASE CallFails(p)
  BY <1>8, NoCopyTyped, BoundsAssumption
  DEF TypeInv, TypeOK, LoopOK, ReadyOK, CallFails, Fault, DropCopy, Stale, objects
<1>9. CASE Crash(p)
  BY <1>9, NoCopyTyped, BoundsAssumption
  DEF TypeInv, TypeOK, LoopOK, ReadyOK, Crash, Ended, Fault, DropListing, DropApp,
      DropCopy, Stale, objects
<1> QED BY <1>1, <1>2, <1>3, <1>4, <1>5, <1>6, <1>7, <1>8, <1>9

\* What an attempt sends has the types of the object's fields.
LEMMA SentTyped ==
  ASSUME TypeInv, NEW p \in Procs, pc[p] = "update"
  PROVE  Sent(p).replicas \in Counts /\ Sent(p).saved \in Annotations
  BY BoundsAssumption DEF TypeInv, TypeOK, ReadyOK, Sent, Copies, Counts, Annotations

\* The steps that store something keep the typing part.
LEMMA TypeInvWrite ==
  ASSUME TypeInv
  PROVE  /\ \A p \in Procs : Update(p) \/ UpdateReplyLost(p) => TypeInv'
         /\ \A a \in Apps : UserScale(a) \/ UserDelete(a) => TypeInv'
<1>0. ASSUME NEW p \in Procs, pc[p] = "update",
             Write(cur[p], Sent(p).replicas, Sent(p).saved)
      PROVE  /\ replicas' \in [Apps -> Counts]
             /\ saved' \in [Apps -> Annotations]
             /\ current' \in [Procs -> BOOLEAN]
  <2>1. cur[p] \in Apps
    BY <1>0 DEF TypeInv, LoopOK
  <2> QED
    BY <1>0, <2>1, SentTyped DEF TypeInv, TypeOK, Write
<1>1. ASSUME NEW p \in Procs, Update(p) PROVE TypeInv'
  <2>1. /\ replicas' \in [Apps -> Counts]
        /\ saved' \in [Apps -> Annotations]
        /\ current' \in [Procs -> BOOLEAN]
    BY <1>0, <1>1 DEF Update
  <2> QED
    BY <1>1, <2>1, NoCopyTyped
    DEF TypeInv, TypeOK, LoopOK, ReadyOK, Update, DropApp, DropCopy, budgets
<1>2. ASSUME NEW p \in Procs, UpdateReplyLost(p) PROVE TypeInv'
  <2>1. /\ replicas' \in [Apps -> Counts]
        /\ saved' \in [Apps -> Annotations]
        /\ current' \in [Procs -> BOOLEAN]
    BY <1>0, <1>2 DEF UpdateReplyLost
  <2>2. faults' \in 0 .. MaxFaults
    BY <1>2, BoundsAssumption DEF TypeInv, TypeOK, UpdateReplyLost, Fault
  <2>4. copy' \in [Procs -> Copies]
    BY <1>2, NoCopyTyped DEF TypeInv, TypeOK, UpdateReplyLost, DropCopy
  <2>5. TypeOK'
    BY <1>2, <2>1, <2>2, <2>4 DEF TypeInv, TypeOK, UpdateReplyLost
  <2>3. LoopOK' /\ ReadyOK'
    BY <1>2 DEF TypeInv, TypeOK, LoopOK, ReadyOK, UpdateReplyLost, DropCopy
  <2> QED
    BY <2>3, <2>5 DEF TypeInv
<1>3. ASSUME NEW a \in Apps, UserScale(a) PROVE TypeInv'
  BY <1>3, BoundsAssumption
  DEF TypeInv, TypeOK, LoopOK, ReadyOK, UserScale, Write, control, loop
<1>4. ASSUME NEW a \in Apps, UserDelete(a) PROVE TypeInv'
  BY <1>4, BoundsAssumption
  DEF TypeInv, TypeOK, LoopOK, ReadyOK, UserDelete, control, loop
<1> QED BY <1>1, <1>2, <1>3, <1>4

LEMMA TypeInvNext == TypeInv /\ [Next]_vars => TypeInv'
<1> SUFFICES ASSUME TypeInv, [Next]_vars PROVE TypeInv'
  OBVIOUS
<1>1. CASE UNCHANGED vars
  BY <1>1 DEF vars, TypeInv, TypeOK, LoopOK, ReadyOK
<1>2. CASE Next
  BY <1>2, TypeInvControl, TypeInvPassError, TypeInvLoop, TypeInvWrite
  DEF Next, Step, Failure
<1> QED BY <1>1, <1>2

(***************************************************************************)
(* Every value the protocol stores has its type; in particular the restore *)
(* never writes an annotation that is not a number into spec.replicas.     *)
(***************************************************************************)
THEOREM TypeCorrect == Spec => []TypeOK
<1>1. TypeInv => TypeOK
  BY DEF TypeInv
<1> QED BY <1>1, InitTypeInv, TypeInvNext, PTL DEF Spec

-----------------------------------------------------------------------------
\* The initial states satisfy the invariant.
LEMMA InitIInv == Init => IInv
<1>1. Init => CopyOK
  BY DEF Init, CopyOK
<1>2. Init => HeldAtZero /\ DeploymentsRecoverable
  BY BoundsAssumption
  DEF Init, HeldAtZero, DeploymentsRecoverable, Recoverable, Counts, Apps
<1> QED
  BY <1>1, <1>2, InitTypeInv DEF IInv, SafeInv

\* A step of p that stores nothing and takes no copy of an object.
Quiet(p) ==
    /\ UNCHANGED <<exists, replicas, saved, intended>>
    /\ \A q \in Procs : pc'[q] = "update" /\ current'[q] =>
          /\ pc[q] = "update" /\ current[q]
          /\ cur'[q] = cur[q] /\ copy'[q] = copy[q]

LEMMA QuietSafe ==
  ASSUME IInv, NEW p \in Procs, Quiet(p)
  PROVE  SafeInv'
<1>1. CopyOK'
  BY DEF IInv, SafeInv, CopyOK, Quiet
<1>2. HeldAtZero' /\ DeploymentsRecoverable'
  BY DEF IInv, SafeInv, HeldAtZero, DeploymentsRecoverable, Recoverable, Quiet
<1> QED BY <1>1, <1>2 DEF SafeInv

LEMMA ControlQuiet ==
  ASSUME TypeInv, NEW p \in Procs,
         Start(p) \/ JobRetry(p) \/ SkipScaleDown(p) \/ Enter(p) \/ Rollout(p)
         \/ EndPass(p) \/ ReturnEarly(p) \/ List(p) \/ (\E a \in Apps : Pick(p, a))
  PROVE  Quiet(p)
<1>1. UNCHANGED <<exists, replicas, saved, intended>>
  BY DEF Start, JobRetry, SkipScaleDown, Enter, Rollout, EndPass, ReturnEarly, List,
         Pick, objects
<1>2. pc'[p] # "update" /\ \A q \in Procs \ {p} : pc'[q] = pc[q]
  BY DEF Start, JobRetry, SkipScaleDown, Enter, Rollout, EndPass, ReturnEarly, List,
         Pick, TypeInv, TypeOK
<1>3. \A q \in Procs \ {p} : current'[q] = current[q] /\ cur'[q] = cur[q] /\ copy'[q] = copy[q]
  BY DEF Start, JobRetry, SkipScaleDown, Enter, Rollout, EndPass, ReturnEarly, List,
         Pick, TypeInv, TypeOK, loop
<1> QED BY <1>1, <1>2, <1>3 DEF Quiet

LEMMA LoopQuiet ==
  ASSUME TypeInv, NEW p \in Procs,
         ListError(p) \/ RestoreUnparsable(p) \/ TimeOut(p) \/ Skip(p)
         \/ ScalePanics(p) \/ UpdateRefused(p) \/ CallFails(p) \/ Crash(p)
  PROVE  Quiet(p)
<1>1. UNCHANGED <<exists, replicas, saved, intended>>
  BY DEF ListError, RestoreUnparsable, TimeOut, Skip, ScalePanics, UpdateRefused,
         CallFails, Crash, objects
<1>2. pc'[p] # "update" /\ \A q \in Procs \ {p} : pc'[q] = pc[q]
  BY DEF ListError, RestoreUnparsable, TimeOut, Skip, ScalePanics, UpdateRefused,
         CallFails, Crash, PassError, TypeInv, TypeOK
<1>3. \A q \in Procs \ {p} : current'[q] = current[q] /\ cur'[q] = cur[q] /\ copy'[q] = copy[q]
  BY DEF ListError, RestoreUnparsable, TimeOut, Skip, ScalePanics, UpdateRefused,
         CallFails, Crash, PassError, DropListing, DropApp, DropCopy, Stale,
         TypeInv, TypeOK
<1> QED BY <1>1, <1>2, <1>3 DEF Quiet

\* The copy an attempt takes is the stored object.
LEMMA GetSafe ==
  ASSUME IInv, NEW p \in Procs, ScaleGet(p) \/ RestoreGet(p)
  PROVE  SafeInv'
<1>1. exists[cur[p]] /\ TakeCopy(p)
  BY DEF ScaleGet, RestoreGet, ScaleSkips, RestoreSkips
<1>2. CopyOK'
  BY <1>1 DEF IInv, TypeInv, TypeOK, SafeInv, CopyOK, TakeCopy, objects
<1>3. HeldAtZero' /\ DeploymentsRecoverable'
  BY <1>1 DEF IInv, SafeInv, HeldAtZero, DeploymentsRecoverable, Recoverable,
              TakeCopy, objects
<1> QED BY <1>2, <1>3 DEF SafeInv

(***************************************************************************)
(* What an accepted Update does to a Deployment: a scale-down finds no     *)
(* saved count and stores the intended one, a restore puts the saved count *)
(* back.                                                                   *)
(***************************************************************************)
LEMMA AcceptedUpdate ==
  ASSUME IInv, NEW p \in Procs, pc[p] = "update", Accepts(p), cur[p] \in Deployments
  PROVE  /\ exists[cur[p]]
         /\ pass[p] = "scale" => /\ saved[cur[p]] \notin Counts
                                 /\ replicas[cur[p]] # 0
                                 /\ Sent(p).replicas = 0
                                 /\ Sent(p).saved = intended[cur[p]]
         /\ pass[p] = "restore" => /\ saved[cur[p]] = intended[cur[p]]
                                   /\ Sent(p).replicas = saved[cur[p]]
                                   /\ Sent(p).saved = NoCount
<1>1. /\ exists[cur[p]]
      /\ copy[p].replicas = replicas[cur[p]]
      /\ copy[p].saved = saved[cur[p]]
  BY DEF IInv, SafeInv, CopyOK, Accepts
<1>2. ASSUME pass[p] = "scale" PROVE copy[p].replicas > 0
  BY <1>2 DEF IInv, TypeInv, ReadyOK
<1>3. ASSUME pass[p] = "restore" PROVE copy[p].saved \in Counts
  BY <1>3 DEF IInv, TypeInv, ReadyOK
<1>4. ASSUME pass[p] = "scale" PROVE saved[cur[p]] \notin Counts
  BY <1>1, <1>2, <1>4 DEF IInv, SafeInv, HeldAtZero
<1> QED
  BY <1>1, <1>2, <1>3, <1>4 DEF IInv, SafeInv, DeploymentsRecoverable, Recoverable, Sent

LEMMA UpdateSafe ==
  ASSUME IInv, NEW p \in Procs, Update(p) \/ UpdateReplyLost(p)
  PROVE  SafeInv'
<1> DEFINE a == cur[p]
<1>1. /\ pc[p] = "update" /\ Accepts(p)
      /\ Write(a, Sent(p).replicas, Sent(p).saved)
      /\ UNCHANGED <<exists, intended>>
      /\ a \in Apps
  BY DEF Update, UpdateReplyLost, IInv, TypeInv, LoopOK
<1>2. pc'[p] # "update" /\ \A q \in Procs \ {p} : pc'[q] = pc[q]
  BY DEF Update, UpdateReplyLost, IInv, TypeInv, TypeOK
<1>3. \A q \in Procs \ {p} : cur'[q] = cur[q] /\ copy'[q] = copy[q]
  BY DEF Update, UpdateReplyLost, IInv, TypeInv, TypeOK, DropApp, DropCopy
<1>4. \A b \in Apps \ {a} : replicas'[b] = replicas[b] /\ saved'[b] = saved[b]
  BY <1>1 DEF Write, IInv, TypeInv, TypeOK
<1>5. replicas'[a] = Sent(p).replicas /\ saved'[a] = Sent(p).saved
  BY <1>1 DEF Write, IInv, TypeInv, TypeOK
<1>6. CopyOK'
  <2> SUFFICES ASSUME NEW q \in Procs, pc'[q] = "update", current'[q]
               PROVE  /\ exists'[cur'[q]]
                      /\ copy'[q].replicas = replicas'[cur'[q]]
                      /\ copy'[q].saved = saved'[cur'[q]]
    BY DEF CopyOK
  <2>1. q # p /\ pc[q] = "update" /\ cur'[q] = cur[q] /\ copy'[q] = copy[q]
    BY <1>2, <1>3
  <2>2. current[q] /\ cur[q] # a
    BY <1>1 DEF Write
  <2>3. cur[q] \in Apps
    BY <2>1 DEF IInv, TypeInv, LoopOK
  <2> QED
    BY <1>1, <1>4, <2>1, <2>2, <2>3 DEF IInv, SafeInv, CopyOK
<1>7. ASSUME NEW d \in Deployments
      PROVE  (saved'[d] \in Counts => replicas'[d] = 0) /\ Recoverable(d)'
  <2>1. CASE d # a
    BY <1>1, <1>4, <2>1 DEF IInv, SafeInv, HeldAtZero, DeploymentsRecoverable,
                            Recoverable, Apps
  <2>2. CASE d = a /\ pass[p] = "scale"
    <3>1. saved'[d] = intended[d] /\ replicas'[d] = 0
      BY <1>1, <1>5, <2>2, AcceptedUpdate
    <3> QED
      BY <1>1, <3>1, <2>2 DEF IInv, TypeInv, TypeOK, Recoverable, Apps
  <2>3. CASE d = a /\ pass[p] = "restore"
    <3>1. saved'[d] = NoCount /\ replicas'[d] = intended[d]
      BY <1>1, <1>5, <2>3, AcceptedUpdate
    <3>2. NoCount \notin Counts
      BY BoundsAssumption DEF Counts
    <3> QED
      BY <1>1, <3>1, <3>2 DEF Recoverable
  <2> QED
    BY <2>1, <2>2, <2>3 DEF IInv, TypeInv, TypeOK
<1> QED
  BY <1>6, <1>7 DEF SafeInv, HeldAtZero, DeploymentsRecoverable

LEMMA UserSafe ==
  ASSUME IInv, NEW a \in Apps, UserScale(a) \/ UserDelete(a)
  PROVE  SafeInv'
<1>1. CopyOK'
  <2> SUFFICES ASSUME NEW q \in Procs, pc'[q] = "update", current'[q]
               PROVE  /\ exists'[cur'[q]]
                      /\ copy'[q].replicas = replicas'[cur'[q]]
                      /\ copy'[q].saved = saved'[cur'[q]]
    BY DEF CopyOK
  <2>1. pc[q] = "update" /\ cur'[q] = cur[q] /\ copy'[q] = copy[q]
    BY DEF UserScale, UserDelete, control, loop
  <2>2. current[q] /\ cur[q] # a
    BY DEF UserScale, UserDelete, Write
  <2>3. cur[q] \in Apps
    BY <2>1 DEF IInv, TypeInv, LoopOK
  <2>4. \A b \in Apps \ {a} : /\ exists'[b] = exists[b]
                              /\ replicas'[b] = replicas[b]
                              /\ saved'[b] = saved[b]
    BY DEF UserScale, UserDelete, Write, IInv, TypeInv, TypeOK
  <2> QED
    BY <2>1, <2>2, <2>3, <2>4 DEF IInv, SafeInv, CopyOK
<1>2. HeldAtZero' /\ DeploymentsRecoverable'
  <2>1. CASE UserScale(a)
    BY <2>1 DEF UserScale, Write, IInv, TypeInv, TypeOK, SafeInv, HeldAtZero,
                DeploymentsRecoverable, Recoverable, Apps
  <2>2. CASE UserDelete(a)
    BY <2>2 DEF UserDelete, IInv, TypeInv, TypeOK, SafeInv, HeldAtZero,
                DeploymentsRecoverable, Recoverable, Apps
  <2> QED BY <2>1, <2>2
<1> QED BY <1>1, <1>2 DEF SafeInv

LEMMA IInvNext == IInv /\ [Next]_vars => IInv'
<1> SUFFICES ASSUME IInv, [Next]_vars PROVE SafeInv'
  BY TypeInvNext DEF IInv
<1>1. CASE UNCHANGED vars
  BY <1>1 DEF vars, IInv, SafeInv, CopyOK, HeldAtZero, DeploymentsRecoverable, Recoverable
<1>2. ASSUME NEW p \in Procs, Start(p) \/ JobRetry(p) \/ Step(p) \/ Failure(p)
      PROVE  SafeInv'
  <2>1. TypeInv
    BY DEF IInv
  <2> QED
    BY <1>2, <2>1, ControlQuiet, LoopQuiet, QuietSafe, GetSafe, UpdateSafe
    DEF Step, Failure
<1>3. ASSUME NEW a \in Apps, UserScale(a) \/ UserDelete(a) PROVE SafeInv'
  BY <1>3, UserSafe
<1> QED BY <1>1, <1>2, <1>3 DEF Next

(***************************************************************************)
(* The original replica count of a Deployment survives every interleaving  *)
(* of upgrades, restores, crashes, retries, lost replies and owners.       *)
(***************************************************************************)
THEOREM DeploymentsKeepTheirCount == Spec => []DeploymentsRecoverable
<1>1. IInv => DeploymentsRecoverable
  BY DEF IInv, SafeInv
<1> QED BY <1>1, InitIInv, IInvNext, PTL DEF Spec

-----------------------------------------------------------------------------
(***************************************************************************)
(* The refinement.  A step changes what the object of one Deployment says  *)
(* to its owner, and there it is a step of ReplicaMemory.                  *)
(***************************************************************************)
OnlyAt(b) ==
    \A d \in Deployments \ {b} : StateOf(d)' = StateOf(d) /\ CountOf(d)' = CountOf(d)

LEMMA MemoryMoves ==
  ASSUME NEW b \in Deployments, OnlyAt(b), CountOf(b)' = CountOf(b),
         \/ CountOf(b) # 0 /\ StateOf(b) = "free" /\ StateOf(b)' = "held"
         \/ StateOf(b) = "held" /\ StateOf(b)' = "free"
         \/ StateOf(b) \in {"free", "held"} /\ StateOf(b)' = "gone"
  PROVE  Memory!Next
<1>1. [d \in Deployments |-> CountOf(d)]' = [d \in Deployments |-> CountOf(d)]
  BY DEF OnlyAt
<1>2. [d \in Deployments |-> StateOf(d)]'
      = [[d \in Deployments |-> StateOf(d)] EXCEPT ![b] = StateOf(b)']
  BY DEF OnlyAt
<1> QED
  BY <1>1, <1>2
  DEF Memory!Next, Memory!Hold, Memory!Release, Memory!OwnerDeletes, Memory!Become

LEMMA MemoryScaled ==
  ASSUME NEW b \in Deployments, OnlyAt(b), CountOf(b)' \in Counts,
         StateOf(b) = "free", StateOf(b)' = "free"
  PROVE  Memory!Next
<1>1. [d \in Deployments |-> StateOf(d)]' = [d \in Deployments |-> StateOf(d)]
  BY DEF OnlyAt
<1>2. [d \in Deployments |-> CountOf(d)]'
      = [[d \in Deployments |-> CountOf(d)] EXCEPT ![b] = CountOf(b)']
  BY DEF OnlyAt
<1> QED
  BY <1>1, <1>2 DEF Memory!Next, Memory!OwnerScales

\* A step that leaves the stored Deployments alone.
LEMMA MemoryStutters ==
  ASSUME \A d \in Deployments : exists'[d] = exists[d] /\ replicas'[d] = replicas[d]
                                /\ saved'[d] = saved[d]
  PROVE  UNCHANGED << [d \in Deployments |-> StateOf(d)], [d \in Deployments |-> CountOf(d)] >>
  BY DEF StateOf, CountOf

LEMMA UpdateMemory ==
  ASSUME IInv, NEW p \in Procs, Update(p) \/ UpdateReplyLost(p), cur[p] \in Deployments
  PROVE  Memory!Next
<1>0. PICK b \in Deployments : b = cur[p]
  OBVIOUS
<1>1. /\ pc[p] = "update" /\ Accepts(p)
      /\ Write(b, Sent(p).replicas, Sent(p).saved)
      /\ UNCHANGED exists
      /\ b \in Apps
  BY <1>0 DEF Update, UpdateReplyLost, Apps
<1>2. replicas'[b] = Sent(p).replicas /\ saved'[b] = Sent(p).saved
  BY <1>1 DEF Write, IInv, TypeInv, TypeOK
<1>3. OnlyAt(b)
  BY <1>1 DEF OnlyAt, StateOf, CountOf, Write, IInv, TypeInv, TypeOK, Apps
<1>4. CASE pass[p] = "scale"
  <2>1. /\ exists[b] /\ saved[b] \notin Counts /\ replicas[b] # 0
        /\ saved'[b] = replicas[b] /\ replicas[b] \in Counts
    BY <1>0, <1>1, <1>2, <1>4, AcceptedUpdate
    DEF IInv, TypeInv, TypeOK, SafeInv, DeploymentsRecoverable, Recoverable
  <2>2. /\ StateOf(b) = "free" /\ StateOf(b)' = "held"
        /\ CountOf(b) = replicas[b] /\ CountOf(b)' = CountOf(b)
    BY <1>1, <2>1 DEF StateOf, CountOf
  <2> QED
    BY <1>3, <2>1, <2>2, MemoryMoves
<1>5. CASE pass[p] = "restore"
  <2>1. /\ exists[b] /\ saved[b] \in Counts
        /\ saved'[b] = NoCount /\ replicas'[b] = saved[b]
    BY <1>0, <1>1, <1>2, <1>5, AcceptedUpdate DEF IInv, TypeInv, TypeOK
  <2>2. NoCount \notin Counts
    BY BoundsAssumption DEF Counts
  <2>3. /\ StateOf(b) = "held" /\ StateOf(b)' = "free"
        /\ CountOf(b)' = CountOf(b)
    BY <1>1, <2>1, <2>2 DEF StateOf, CountOf
  <2> QED
    BY <1>3, <2>3, MemoryMoves
<1> QED
  BY <1>4, <1>5 DEF IInv, TypeInv, TypeOK

LEMMA UserMemory ==
  ASSUME IInv, NEW b \in Deployments, UserScale(b) \/ UserDelete(b)
  PROVE  Memory!Next
<1>1. b \in Apps
  BY DEF Apps
<1>2. OnlyAt(b)
  BY <1>1 DEF OnlyAt, StateOf, CountOf, UserScale, UserDelete, Write, IInv, TypeInv,
              TypeOK, Apps
<1>3. CASE UserScale(b)
  <2>1. /\ exists[b] /\ exists'[b] /\ saved[b] \notin Counts /\ saved'[b] = saved[b]
        /\ replicas'[b] \in Counts
    BY <1>1, <1>3 DEF UserScale, Write, IInv, TypeInv, TypeOK
  <2> QED
    BY <1>2, <2>1, MemoryScaled DEF StateOf, CountOf
<1>4. CASE UserDelete(b)
  <2>1. exists[b] /\ ~exists'[b] /\ UNCHANGED <<replicas, saved>>
    BY <1>1, <1>4 DEF UserDelete, IInv, TypeInv, TypeOK
  <2> QED
    BY <1>2, <2>1, MemoryMoves DEF StateOf, CountOf
<1> QED BY <1>3, <1>4

(***************************************************************************)
(* The protocol implements ReplicaMemory for Deployments, with any number  *)
(* of Jobs, faults and retries: only the owner changes the count that a    *)
(* Deployment runs with or comes back with.                                *)
(***************************************************************************)
THEOREM RefinesReplicaMemory == Spec => ImplementsReplicaMemory
<1> DEFINE st == [d \in Deployments |-> StateOf(d)]
           ct == [d \in Deployments |-> CountOf(d)]
<1>1. Init => Memory!Init
  <2> SUFFICES ASSUME Init PROVE Memory!Init
    OBVIOUS
  <2>1. \A d \in Deployments : exists[d] /\ saved[d] \notin Counts /\ replicas[d] \in Counts
    BY BoundsAssumption DEF Init, Counts, Apps
  <2> QED
    BY <2>1 DEF Memory!Init, StateOf, CountOf
<1>2. IInv /\ [Next]_vars => [Memory!Next]_<<st, ct>>
  <2> SUFFICES ASSUME IInv, [Next]_vars PROVE Memory!Next \/ UNCHANGED <<st, ct>>
    OBVIOUS
  <2>1. CASE UNCHANGED vars
    BY <2>1, MemoryStutters DEF vars
  <2>2. ASSUME NEW p \in Procs, Start(p) \/ JobRetry(p) \/ Step(p) \/ Failure(p)
        PROVE  Memory!Next \/ UNCHANGED <<st, ct>>
    <3>1. CASE Quiet(p) \/ ScaleGet(p) \/ RestoreGet(p)
      BY <3>1, MemoryStutters DEF Quiet, ScaleGet, RestoreGet, TakeCopy, objects
    <3>2. CASE Update(p) \/ UpdateReplyLost(p)
      <4>1. CASE cur[p] \in Deployments
        BY <3>2, <4>1, UpdateMemory
      <4>2. CASE cur[p] \notin Deployments
        <5>1. Write(cur[p], Sent(p).replicas, Sent(p).saved) /\ UNCHANGED exists
          BY <3>2 DEF Update, UpdateReplyLost
        <5> QED
          BY <4>2, <5>1, MemoryStutters DEF Write, IInv, TypeInv, TypeOK, Apps
      <4> QED BY <4>1, <4>2
    <3>3. TypeInv
      BY DEF IInv
    <3> QED
      BY <2>2, <3>1, <3>2, <3>3, ControlQuiet, LoopQuiet DEF Step, Failure
  <2>3. ASSUME NEW a \in Apps, UserScale(a) \/ UserDelete(a)
        PROVE  Memory!Next \/ UNCHANGED <<st, ct>>
    <3>1. CASE a \in Deployments
      BY <2>3, <3>1, UserMemory
    <3>2. CASE a \notin Deployments
      BY <2>3, <3>2, MemoryStutters
      DEF UserScale, UserDelete, Write, IInv, TypeInv, TypeOK, Apps
    <3> QED BY <3>1, <3>2
  <2> QED BY <2>1, <2>2, <2>3 DEF Next
<1> QED
  BY <1>1, <1>2, InitIInv, IInvNext, PTL DEF Spec, ImplementsReplicaMemory, Memory!Spec

-----------------------------------------------------------------------------
(***************************************************************************)
(* RestoreComplete.  Every application held at zero is owed by a process   *)
(* that has not ended with a complete restore: one that has yet to restore *)
(* (it is still scaling down, rolling out, or was interrupted) or whose    *)
(* restore has the application still ahead of it.                          *)
(***************************************************************************)
Pending == {"start", "list", "rollout", "failed", "returned", "crashed", "panicked"}

Owes(p, a) ==
    /\ pc[p] \notin {"idle", "done"}
    /\ \/ pass[p] = "scale"
       \/ pc[p] \in Pending
       \/ todo[p][a] > 0
       \/ pc[p] \in InLoop /\ cur[p] = a

Owed == \A a \in Apps \ hidden : HeldDown(a) => \E p \in Procs : Owes(p, a)

\* Only apps that a listing returns, with an annotations map, are ever held.
ListedInv ==
    /\ \A p \in Procs : \A a \in Apps : todo[p][a] > 0 => Listed[a] > 0
    /\ \A p \in Procs : pc[p] \in InLoop => Listed[cur[p]] > 0
    /\ \A p \in Procs : pc[p] = "update" /\ pass[p] = "scale" => cur[p] \notin Bare
    /\ \A a \in Apps : saved[a] \in Counts => Listed[a] > 0 /\ a \notin Bare

OwedInv == TypeInv /\ ListedInv /\ Owed

LEMMA InitOwed == Init => OwedInv
<1> SUFFICES ASSUME Init PROVE ListedInv /\ Owed
  BY InitTypeInv DEF OwedInv
<1>1. \A a \in Apps : saved[a] \notin Counts
  BY BoundsAssumption DEF Init, Counts
<1>2. ListedInv
  BY <1>1 DEF Init, ListedInv
<1>3. Owed
  BY <1>1 DEF Owed, HeldDown
<1> QED BY <1>2, <1>3

\* A step of p after which everything it owed, it still owes; and nothing is held
\* that was not.
Keeps(p) ==
    /\ UNCHANGED <<exists, saved>>
    /\ \A q \in Procs \ {p} : /\ pc'[q] = pc[q] /\ pass'[q] = pass[q]
                              /\ todo'[q] = todo[q] /\ cur'[q] = cur[q]
    /\ \A a \in Apps : todo'[p][a] > 0 => Listed[a] > 0
    /\ pc'[p] \in InLoop => Listed[cur'[p]] > 0
    /\ pc'[p] = "update" /\ pass'[p] = "scale" => cur'[p] \notin Bare
    /\ hidden \subseteq hidden'
    /\ \A a \in Apps \ hidden' : HeldDown(a) /\ Owes(p, a) => Owes(p, a)'

LEMMA KeepsOwed ==
  ASSUME OwedInv, NEW p \in Procs, Keeps(p)
  PROVE  ListedInv' /\ Owed'
<1>1. ListedInv'
  BY DEF OwedInv, ListedInv, Keeps
<1>2. Owed'
  <2> SUFFICES ASSUME NEW a \in Apps \ hidden', HeldDown(a)'
               PROVE  \E q \in Procs : Owes(q, a)'
    BY DEF Owed
  <2>1. HeldDown(a)
    BY DEF Keeps, HeldDown
  <2>2. PICK q \in Procs : Owes(q, a)
    BY <2>1 DEF OwedInv, Owed, Keeps
  <2>3. Owes(q, a)'
    <3>1. CASE q = p
      BY <2>1, <2>2, <3>1 DEF Keeps
    <3>2. CASE q # p
      BY <2>2, <3>2 DEF Keeps, Owes
    <3> QED BY <3>1, <3>2
  <2> QED BY <2>3
<1> QED BY <1>1, <1>2

LEMMA ControlKeeps ==
  ASSUME OwedInv, NEW p \in Procs,
         Start(p) \/ JobRetry(p) \/ SkipScaleDown(p) \/ Enter(p) \/ Rollout(p)
         \/ EndPass(p) \/ ReturnEarly(p)
  PROVE  Keeps(p)
<1>1. /\ UNCHANGED <<exists, saved, todo, cur, hidden>>
      /\ \A q \in Procs \ {p} : pc'[q] = pc[q] /\ pass'[q] = pass[q]
      /\ pc'[p] \notin InLoop
  BY DEF Start, JobRetry, SkipScaleDown, Enter, Rollout, EndPass, ReturnEarly, loop,
         objects, OwedInv, TypeInv, TypeOK
<1>2. ASSUME NEW a \in Apps, Owes(p, a) PROVE Owes(p, a)'
  <2>1. CASE ~EndPass(p)
    <3>1. pc'[p] \in Pending
      BY <2>1 DEF Start, JobRetry, SkipScaleDown, Enter, Rollout, ReturnEarly, Pending,
             OwedInv, TypeInv, TypeOK
    <3> QED BY <3>1 DEF Owes, Pending
  <2>2. CASE EndPass(p)
    <3>1. todo[p][a] \in Nat /\ ~(todo[p][a] > 0) /\ pc[p] = "pick"
      BY <2>2 DEF EndPass, Remaining, OwedInv, TypeInv, TypeOK
    <3>2. pass[p] = "scale" /\ pc'[p] = "rollout"
      BY <1>2, <2>2, <3>1 DEF Owes, EndPass, Pending, OwedInv, TypeInv, TypeOK
    <3> QED BY <3>2 DEF Owes, Pending
  <2> QED BY <2>1, <2>2
<1> QED
  BY <1>1, <1>2 DEF Keeps, OwedInv, ListedInv

LEMMA PassErrorKeeps ==
  ASSUME OwedInv, NEW p \in Procs, ListError(p) \/ RestoreUnparsable(p) \/ TimeOut(p)
  PROVE  Keeps(p)
<1>1. PassError(p) /\ UNCHANGED <<objects, hidden>>
  BY DEF ListError, RestoreUnparsable, TimeOut
<1>2. /\ pc'[p] \in {"list", "failed"}
      /\ \A q \in Procs \ {p} : pc'[q] = pc[q] /\ pass'[q] = pass[q]
  BY <1>1 DEF PassError, OwedInv, TypeInv, TypeOK
<1>3. /\ \A a \in Apps : todo'[p][a] = 0
      /\ \A q \in Procs \ {p} : todo'[q] = todo[q] /\ cur'[q] = cur[q]
  BY <1>1 DEF PassError, DropListing, DropApp, OwedInv, TypeInv, TypeOK
<1>4. \A a \in Apps : Owes(p, a)'
  BY <1>2 DEF Owes, Pending
<1> QED
  BY <1>1, <1>2, <1>3, <1>4 DEF Keeps, objects

LEMMA LoopKeeps ==
  ASSUME OwedInv, NEW p \in Procs,
         List(p) \/ (\E a \in Apps : Pick(p, a)) \/ Skip(p) \/ ScaleGet(p)
         \/ ScalePanics(p) \/ RestoreGet(p) \/ UpdateRefused(p) \/ CallFails(p)
         \/ Crash(p)
  PROVE  Keeps(p)
<1> USE DEF OwedInv, TypeInv, TypeOK, objects
<1>1. CASE List(p)
  <2>1. PICK h : /\ todo' = [todo EXCEPT ![p] = Listing(h)]
                 /\ hidden' = hidden \cup h
    <3>1. CASE todo' = [todo EXCEPT ![p] = Listing({})] /\ hidden' = hidden
      <4>1. hidden' = hidden \cup {}
        BY <3>1
      <4> QED BY <3>1, <4>1, Zenon
    <3>2. CASE \E a \in Apps : /\ todo' = [todo EXCEPT ![p] = Listing({a})]
                              /\ hidden' = hidden \cup {a}
      BY <3>2, Zenon
    <3> QED BY <1>1, <3>1, <3>2, Zenon DEF List
  <2>2. \A a \in Apps : todo'[p][a] = IF exists[a] /\ a \notin h THEN Listed[a] ELSE 0
    BY <2>1 DEF Listing
  <2>3. ASSUME NEW a \in Apps \ hidden', HeldDown(a) PROVE todo'[p][a] > 0
    BY <2>1, <2>2, <2>3 DEF HeldDown, ListedInv
  <2>4. /\ UNCHANGED <<exists, saved, cur, pass>>
        /\ pc'[p] = "pick"
        /\ \A q \in Procs \ {p} : pc'[q] = pc[q] /\ todo'[q] = todo[q]
    BY <1>1, <2>1 DEF List
  <2>5. \A a \in Apps : todo'[p][a] > 0 => Listed[a] > 0
    BY <2>2, AppsAssumption
  <2> QED
    BY <2>1, <2>3, <2>4, <2>5 DEF Keeps, Owes
<1>2. CASE \E a \in Apps : Pick(p, a)
  <2>1. PICK b \in Apps : Pick(p, b)
    BY <1>2
  <2>2. todo[p][b] \in Nat /\ todo[p][b] > 0 /\ Listed[b] > 0
    BY <2>1 DEF Pick, NextApps, Remaining, ListedInv
  <2>3. /\ UNCHANGED <<exists, saved, pass, hidden>>
        /\ pc[p] = "pick" /\ pc'[p] = "get" /\ cur'[p] = b
        /\ \A q \in Procs \ {p} : pc'[q] = pc[q] /\ cur'[q] = cur[q] /\ todo'[q] = todo[q]
    BY <2>1 DEF Pick
  <2>4. \A a \in Apps : todo'[p][a] = IF a = b THEN todo[p][a] - 1 ELSE todo[p][a]
    BY <2>1 DEF Pick
  <2>5. \A a \in Apps : todo'[p][a] > 0 => Listed[a] > 0
    BY <2>2, <2>4 DEF ListedInv
  <2>6. \A a \in Apps : Owes(p, a) => Owes(p, a)'
    BY <2>3, <2>4 DEF Owes, Pending
  <2> QED
    BY <2>2, <2>3, <2>5, <2>6 DEF Keeps
<1>3. CASE Skip(p)
  <2>1. /\ UNCHANGED <<exists, saved, pass, todo, hidden>>
        /\ pc[p] \in InLoop /\ pc'[p] = "pick"
        /\ \A q \in Procs \ {p} : pc'[q] = pc[q] /\ cur'[q] = cur[q]
    BY <1>3 DEF Skip, DropApp
  <2>2. ASSUME NEW a \in Apps, HeldDown(a), Owes(p, a) PROVE Owes(p, a)'
    <3>1. CASE cur[p] = a /\ pass[p] # "scale"
      <4>1. RestoreSkips(a)
        BY <1>3, <3>1 DEF Skip
      <4>2. saved[a] # NoCount /\ a \notin Bare /\ exists[a]
        BY <2>2, BoundsAssumption DEF HeldDown, ListedInv, Counts
      <4> QED BY <4>1, <4>2 DEF RestoreSkips
    <3>2. CASE cur[p] # a \/ pass[p] = "scale"
      BY <2>1, <2>2, <3>2 DEF Owes, Pending
    <3> QED BY <3>1, <3>2
  <2> QED
    BY <2>1, <2>2 DEF Keeps, ListedInv
<1>4. CASE ScaleGet(p) \/ RestoreGet(p)
  <2>1. /\ UNCHANGED <<exists, saved, pass, todo, cur, hidden>>
        /\ pc[p] \in InLoop /\ pc'[p] = "update"
        /\ \A q \in Procs \ {p} : pc'[q] = pc[q]
        /\ pass[p] = "scale" => cur[p] \notin Bare
    BY <1>4 DEF ScaleGet, RestoreGet, TakeCopy
  <2> QED
    BY <2>1 DEF Keeps, Owes, Pending, ListedInv
<1>5. CASE ScalePanics(p) \/ Crash(p)
  <2>1. /\ UNCHANGED <<exists, saved, pass, hidden>>
        /\ pc'[p] \in {"panicked", "crashed"}
        /\ \A a \in Apps : todo'[p][a] = 0
        /\ \A q \in Procs \ {p} : pc'[q] = pc[q] /\ cur'[q] = cur[q] /\ todo'[q] = todo[q]
    BY <1>5 DEF ScalePanics, Crash, DropListing, DropApp
  <2> QED
    BY <2>1 DEF Keeps, Owes, Pending
<1>6. CASE UpdateRefused(p) \/ CallFails(p)
  <2>1. /\ UNCHANGED <<exists, saved, pass, todo, cur, hidden>>
        /\ pc[p] \in InLoop /\ pc'[p] = "retry"
        /\ \A q \in Procs \ {p} : pc'[q] = pc[q]
    BY <1>6 DEF UpdateRefused, CallFails
  <2> QED
    BY <2>1 DEF Keeps, Owes, Pending, ListedInv
<1> QED BY <1>1, <1>2, <1>3, <1>4, <1>5, <1>6

\* An Update of a scale-down is owed by its process, one of a restore releases.
LEMMA UpdateOwed ==
  ASSUME OwedInv, NEW p \in Procs, Update(p) \/ UpdateReplyLost(p)
  PROVE  ListedInv' /\ Owed'
<1> USE DEF OwedInv, TypeInv, TypeOK
<1> DEFINE b == cur[p]
<1>1. /\ pc[p] = "update" /\ b \in Apps /\ Listed[b] > 0
      /\ Write(b, Sent(p).replicas, Sent(p).saved)
      /\ UNCHANGED <<exists, pass, todo, hidden>>
  BY DEF Update, UpdateReplyLost, LoopOK, ListedInv
<1>2. /\ pc'[p] \in {"pick", "retry"}
      /\ pc'[p] = "retry" => cur'[p] = b
      /\ \A q \in Procs \ {p} : pc'[q] = pc[q] /\ cur'[q] = cur[q]
  BY DEF Update, UpdateReplyLost, DropApp
<1>3. /\ \A a \in Apps \ {b} : saved'[a] = saved[a]
      /\ saved'[b] = Sent(p).saved
  BY <1>1 DEF Write
<1>4. pass[p] = "restore" => saved'[b] \notin Counts
  BY <1>3, BoundsAssumption DEF Sent, Counts
<1>5. pass[p] \in {"scale", "restore"}
  OBVIOUS
<1>6. ListedInv'
  <2>1. pass[p] = "scale" => b \notin Bare
    BY <1>1 DEF ListedInv
  <2>2. \A a \in Apps : saved'[a] \in Counts => Listed[a] > 0 /\ a \notin Bare
    BY <1>1, <1>3, <1>4, <1>5, <2>1 DEF ListedInv
  <2> QED
    BY <1>1, <1>2, <2>2 DEF ListedInv
<1>7. Owed'
  <2> SUFFICES ASSUME NEW a \in Apps \ hidden', HeldDown(a)'
               PROVE  \E q \in Procs : Owes(q, a)'
    BY DEF Owed
  <2>1. CASE pass[p] = "scale"
    BY <1>1, <1>2, <2>1 DEF Owes
  <2>2. CASE pass[p] = "restore"
    <3>1. a # b /\ HeldDown(a)
      BY <1>1, <1>3, <1>4, <2>2 DEF HeldDown
    <3>2. PICK q \in Procs : Owes(q, a)
      BY <1>1, <3>1 DEF Owed
    <3>3. Owes(q, a)'
      BY <1>1, <1>2, <3>1, <3>2 DEF Owes, Pending
    <3> QED BY <3>3
  <2> QED BY <1>5, <2>1, <2>2
<1> QED BY <1>6, <1>7

LEMMA UserOwed ==
  ASSUME OwedInv, NEW b \in Apps, UserScale(b) \/ UserDelete(b)
  PROVE  ListedInv' /\ Owed'
<1> USE DEF OwedInv, TypeInv, TypeOK
<1>1. UNCHANGED <<pc, pass, todo, cur, hidden>>
  BY DEF UserScale, UserDelete, control, loop
<1>2. \A a \in Apps : saved'[a] = saved[a] /\ (exists'[a] => exists[a])
  BY DEF UserScale, UserDelete, Write
<1> QED
  BY <1>1, <1>2 DEF ListedInv, Owed, Owes, HeldDown

LEMMA OwedNext == OwedInv /\ [Next]_vars => OwedInv'
<1> SUFFICES ASSUME OwedInv, [Next]_vars PROVE ListedInv' /\ Owed'
  BY TypeInvNext DEF OwedInv
<1>1. CASE UNCHANGED vars
  BY <1>1 DEF vars, OwedInv, ListedInv, Owed, Owes, HeldDown
<1>2. ASSUME NEW p \in Procs, Start(p) \/ JobRetry(p) \/ Step(p) \/ Failure(p)
      PROVE  ListedInv' /\ Owed'
  BY <1>2, ControlKeeps, PassErrorKeeps, LoopKeeps, KeepsOwed, UpdateOwed
  DEF Step, Failure
<1>3. ASSUME NEW a \in Apps, UserScale(a) \/ UserDelete(a) PROVE ListedInv' /\ Owed'
  BY <1>3, UserOwed
<1> QED BY <1>1, <1>2, <1>3 DEF Next

(***************************************************************************)
(* Once every process has either not run or ended with a restore that      *)
(* returned nil, nothing is left scaled down but what a listing lost.      *)
(***************************************************************************)
THEOREM RestoresAreComplete == Spec => []RestoreComplete
<1>1. OwedInv => RestoreComplete
  BY DEF OwedInv, Owed, Owes, RestoreComplete
<1> QED BY <1>1, InitOwed, OwedNext, PTL DEF Spec

=============================================================================
