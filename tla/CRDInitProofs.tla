--------------------------- MODULE CRDInitProofs ---------------------------
(***************************************************************************)
(* Proofs about CRDInit, for every list of resources, every number of      *)
(* callers and every bound.                                                *)
(***************************************************************************)
EXTENDS CRDInit, TLAPS

\* The definitions that are stored, and those that are established.
Stored == {r \in Resources : exists[r]}

Standing == {r \in Resources : exists[r] /\ status[r].established}

(***************************************************************************)
(* The inductive invariant: what each loop has done up to its position.    *)
(***************************************************************************)
Before(c) == {List[i] : i \in 1 .. at[c] - 1}

CreatedSoFar ==
    \A c \in Callers : pc[c] = "create" =>
       Before(c) \ (lost \cup refused[c]) \subseteq Stored

EstablishedSoFar ==
    \A c \in Callers : pc[c] = "wait" /\ ~lastErr[c] =>
       Before(c) \ lost \subseteq Standing

IInv == TypeOK /\ CreatedSoFar /\ OthersAreCreated /\ EstablishedSoFar /\ NilMeansEstablished

LEMMA ListTyped ==
  /\ Len(List) \in Nat /\ Len(List) >= 1
  /\ \A i \in 1 .. Len(List) : List[i] \in Resources
  /\ \A r \in Resources : \E i \in 1 .. Len(List) : List[i] = r
  BY ListAssumption

LEMMA InitIInv == Init => IInv
<1> SUFFICES ASSUME Init PROVE IInv
  OBVIOUS
<1>1. TypeOK
  BY ListTyped, CRDBoundsAssumption DEF Init, TypeOK, Conditions, NoStatus, Ended
<1> QED
  BY <1>1 DEF Init, IInv, CreatedSoFar, OthersAreCreated, EstablishedSoFar, NilMeansEstablished

\* The end of an iteration: where it leads, and what it leaves alone.
LEMMA DoneMoves ==
  ASSUME TypeOK, NEW c \in Callers, NEW failed \in BOOLEAN, Done(c, failed),
         pc[c] \in {"create", "wait"}
  PROVE  /\ pc' \in [Callers -> {"idle", "create", "wait"} \cup Ended]
         /\ at' \in [Callers -> 1 .. Len(List)]
         /\ lastErr' \in [Callers -> BOOLEAN]
         /\ closed' \in [Callers -> BOOLEAN]
         /\ \A b \in Callers \ {c} : pc'[b] = pc[b] /\ at'[b] = at[b] /\ lastErr'[b] = lastErr[b]
         /\ lastErr'[c] = (lastErr[c] \/ failed)
         /\ \/ at[c] < Len(List) /\ at'[c] = at[c] + 1 /\ pc'[c] = pc[c]
            \/ at[c] = Len(List) /\ pc[c] = "create" /\ pc'[c] = "wait" /\ at'[c] = 1
            \/ at[c] = Len(List) /\ pc[c] = "wait" /\ at'[c] = 1
               /\ pc'[c] = IF lastErr'[c] THEN "error" ELSE "nil"
<1>1. /\ lastErr' = [lastErr EXCEPT ![c] = lastErr[c] \/ failed]
      /\ closed' = [closed EXCEPT ![c] = FALSE]
  BY DEF Done, Record, Advance
<1>2. /\ lastErr' \in [Callers -> BOOLEAN]
      /\ closed' \in [Callers -> BOOLEAN]
      /\ \A b \in Callers \ {c} : lastErr'[b] = lastErr[b]
      /\ lastErr'[c] = (lastErr[c] \/ failed)
  BY <1>1, Zenon DEF TypeOK
<1>3. CASE at[c] < Len(List) /\ at' = [at EXCEPT ![c] = @ + 1] /\ UNCHANGED pc
  BY <1>2, <1>3, ListTyped DEF TypeOK
<1>4. CASE /\ at[c] = Len(List)
           /\ at' = [at EXCEPT ![c] = 1]
           /\ pc' = [pc EXCEPT ![c] = IF @ = "create" THEN "wait"
                                      ELSE IF lastErr'[c] THEN "error" ELSE "nil"]
  <2>1. /\ at' \in [Callers -> 1 .. Len(List)]
        /\ \A b \in Callers \ {c} : at'[b] = at[b]
        /\ at'[c] = 1
    BY <1>4, ListTyped DEF TypeOK
  <2>2. /\ pc' \in [Callers -> {"idle", "create", "wait"} \cup Ended]
        /\ \A b \in Callers \ {c} : pc'[b] = pc[b]
        /\ pc'[c] = IF pc[c] = "create" THEN "wait"
                    ELSE IF lastErr'[c] THEN "error" ELSE "nil"
    BY <1>4 DEF TypeOK, Ended
  <2> QED BY <1>2, <1>4, <2>1, <2>2
<1> QED BY <1>3, <1>4 DEF Done, Advance

\* The resources behind the position of a loop, after an iteration.
LEMMA BeforeGrows ==
  ASSUME TypeOK, NEW c \in Callers, at'[c] = at[c] + 1
  PROVE  Before(c)' = Before(c) \cup {List[at[c]]}
<1>1. at[c] \in Nat /\ at[c] >= 1
  BY ListTyped DEF TypeOK
<1> QED BY <1>1 DEF Before

LEMMA BeforeIsAll ==
  ASSUME TypeOK, NEW c \in Callers, at[c] = Len(List)
  PROVE  Resources = Before(c) \cup {List[at[c]]}
  BY ListTyped DEF Before

LEMMA BeforeStart ==
  ASSUME NEW c \in Callers, at'[c] = 1
  PROVE  Before(c)' = {}
  BY DEF Before

(***************************************************************************)
(* What a step may do to the definitions without disturbing a caller:      *)
(* nothing that exists or is established is taken back but by a deletion,  *)
(* which records it.                                                       *)
(***************************************************************************)
Grows ==
    /\ lost \subseteq lost'
    /\ Stored \ lost' \subseteq Stored'
    /\ Standing \ lost' \subseteq Standing'

Keeps(c) ==
    /\ pc'[c] = pc[c] /\ at'[c] = at[c] /\ lastErr'[c] = lastErr[c]
    /\ refused'[c] = refused[c]

\* The invariant, caller by caller.
CallerOK(c) ==
    /\ pc[c] = "create" => Before(c) \ (lost \cup refused[c]) \subseteq Stored
    /\ pc[c] \in {"wait", "nil", "error"} => Resources \ (lost \cup refused[c]) \subseteq Stored
    /\ pc[c] = "wait" /\ ~lastErr[c] => Before(c) \ lost \subseteq Standing
    /\ pc[c] = "nil" => Resources \ lost \subseteq Standing

LEMMA BeforeTyped ==
  ASSUME TypeOK, NEW c \in Callers
  PROVE  Before(c) \subseteq Resources
  BY ListTyped DEF Before, TypeOK

LEMMA CallerByCaller == IInv <=> TypeOK /\ \A c \in Callers : CallerOK(c)
<1> SUFFICES ASSUME TypeOK
             PROVE  IInv <=> \A c \in Callers : CallerOK(c)
  BY DEF IInv
<1>1. \A c \in Callers : Before(c) \subseteq Resources
  BY BeforeTyped
<1> QED
  BY <1>1 DEF IInv, CreatedSoFar, OthersAreCreated, EstablishedSoFar, NilMeansEstablished,
              CallerOK, Stored, Standing

LEMMA KeepsOK ==
  ASSUME TypeOK, NEW c \in Callers, CallerOK(c), Keeps(c), Grows
  PROVE  CallerOK(c)'
<1>1. Before(c)' = Before(c) /\ Before(c) \subseteq Resources
  BY BeforeTyped DEF Before, Keeps
<1> QED
  BY <1>1 DEF CallerOK, Keeps, Grows

(***************************************************************************)
(* An iteration of one of the loops: r is the resource of this iteration.  *)
(* The loop that creates leaves r stored or refused, the loop that waits   *)
(* leaves r established unless it failed.                                  *)
(***************************************************************************)
LEMMA IterationOK ==
  ASSUME TypeOK, NEW c \in Callers, CallerOK(c), Grows,
         NEW failed \in BOOLEAN, Done(c, failed), pc[c] \in {"create", "wait"},
         NEW r \in Resources, r = List[at[c]],
         refused[c] \subseteq refused'[c],
         pc[c] = "create" => r \in Stored' \cup refused'[c],
         pc[c] = "wait" => failed \/ r \in Standing'
  PROVE  CallerOK(c)'
<1>1. Before(c) \subseteq Resources
  BY BeforeTyped
<1>2. CASE at[c] < Len(List) /\ at'[c] = at[c] + 1 /\ pc'[c] = pc[c]
  <2>1. Before(c)' = Before(c) \cup {r}
    BY <1>2, BeforeGrows
  <2>2. lastErr'[c] = (lastErr[c] \/ failed)
    BY DoneMoves
  <2> QED
    BY <1>1, <1>2, <2>1, <2>2 DEF CallerOK, Grows
<1>3. CASE at[c] = Len(List) /\ pc[c] = "create" /\ pc'[c] = "wait" /\ at'[c] = 1
  <2>1. Before(c)' = {} /\ Resources = Before(c) \cup {r}
    BY <1>3, BeforeStart, BeforeIsAll
  <2> QED
    BY <1>3, <2>1 DEF CallerOK, Grows
<1>4. CASE at[c] = Len(List) /\ pc[c] = "wait" /\ at'[c] = 1
           /\ pc'[c] = IF lastErr'[c] THEN "error" ELSE "nil"
  <2>1. Resources = Before(c) \cup {r}
    BY <1>4, BeforeIsAll
  <2>2. lastErr'[c] = (lastErr[c] \/ failed)
    BY DoneMoves
  <2> QED
    BY <1>4, <2>1, <2>2 DEF CallerOK, Grows
<1> QED
  BY <1>2, <1>3, <1>4, DoneMoves

-----------------------------------------------------------------------------
\* A request stores a definition or finds it stored.
LEMMA StoreGrows ==
  ASSUME TypeOK, NEW r \in Resources, Store(r), lost' = lost
  PROVE  /\ Grows /\ r \in Stored'
         /\ exists' \in [Resources -> BOOLEAN]
         /\ status' \in [Resources -> Conditions]
         /\ clash' = clash
<1>1. PICK first \in BOOLEAN :
         status' = IF exists[r] THEN status ELSE [status EXCEPT ![r].namesFirst = first]
  BY DEF Store
<1>2. exists' = [exists EXCEPT ![r] = TRUE] /\ clash' = clash
  BY DEF Store
<1>3. /\ exists' \in [Resources -> BOOLEAN]
      /\ exists'[r]
      /\ \A q \in Resources : exists[q] => exists'[q]
  BY <1>2 DEF TypeOK
<1>4. status' \in [Resources -> Conditions]
  BY <1>1 DEF TypeOK, Conditions
<1>5. \A q \in Resources : exists[q] => status'[q].established = status[q].established
  BY <1>1 DEF TypeOK, Conditions
<1> QED
  BY <1>2, <1>3, <1>4, <1>5 DEF Grows, Stored, Standing

LEMMA CreateOK ==
  ASSUME TypeOK, \A b \in Callers : CallerOK(b), NEW c \in Callers,
         createCRD(c) \/ createFails(c)
  PROVE  TypeOK' /\ \A b \in Callers : CallerOK(b)'
<1>1. PICK r \in Resources : r = List[at[c]]
  BY ListTyped DEF TypeOK
<1>2. PICK failed \in BOOLEAN : Done(c, failed)
  BY Zenon DEF createCRD, createFails, IsError
<1>3. pc[c] = "create" /\ lost' = lost /\ calls' = calls /\ meddling' = meddling
  BY DEF createCRD, createFails
<1>4. Store(r) \/ UNCHANGED server
  BY <1>1 DEF createCRD, createFails
<1>5. /\ Grows
      /\ exists' \in [Resources -> BOOLEAN]
      /\ status' \in [Resources -> Conditions]
      /\ clash' = clash
  BY <1>3, <1>4, StoreGrows DEF server, Grows, Stored, Standing, TypeOK
<1>6. /\ refused' \in [Callers -> SUBSET Resources]
      /\ refused[c] \subseteq refused'[c]
      /\ \A b \in Callers \ {c} : refused'[b] = refused[b]
      /\ r \in Stored' \cup refused'[c]
  <2>1. CASE createCRD(c)
    BY <1>1, <1>3, <2>1, StoreGrows DEF createCRD, TypeOK
  <2>2. CASE createFails(c)
    BY <1>1, <2>2 DEF createFails, TypeOK
  <2> QED BY <2>1, <2>2
<1>7. trouble' \in [Callers -> BOOLEAN] /\ faults' \in 0 .. MaxFaults
  <2>1. trouble' = trouble \/ trouble' = [trouble EXCEPT ![c] = TRUE]
    BY DEF createCRD, createFails, Blame
  <2>2. faults' \in 0 .. MaxFaults
    BY CRDBoundsAssumption DEF createCRD, createFails, Fault, TypeOK
  <2> QED BY <2>1, <2>2 DEF TypeOK
<1>8. TypeOK'
  BY <1>2, <1>3, <1>5, <1>6, <1>7, DoneMoves DEF TypeOK
<1>9. CallerOK(c)'
  BY <1>1, <1>2, <1>3, <1>5, <1>6, IterationOK
<1>10. ASSUME NEW b \in Callers \ {c} PROVE CallerOK(b)'
  <2>1. Keeps(b)
    BY <1>2, <1>3, <1>6, DoneMoves DEF Keeps
  <2> QED BY <1>5, <2>1, KeepsOK
<1> QED BY <1>8, <1>9, <1>10

LEMMA WaitOK ==
  ASSUME TypeOK, \A b \in Callers : CallerOK(b), NEW c \in Callers,
         waitForCRDInit(c) \/ timesOut(c) \/ getFails(c)
  PROVE  TypeOK' /\ \A b \in Callers : CallerOK(b)'
<1>1. PICK r \in Resources : r = List[at[c]]
  BY ListTyped DEF TypeOK
<1>2. pc[c] = "wait" /\ UNCHANGED <<exists, status, clash, lost, refused, calls, meddling>>
  BY DEF waitForCRDInit, timesOut, getFails, server
<1>3. PICK failed \in BOOLEAN : Done(c, failed) /\ (failed \/ r \in Standing)
  <2>1. CASE waitForCRDInit(c)
    <3>1. Done(c, Verdict(r) = "error") /\ Verdict(r) # "again"
      BY <1>1, <2>1 DEF waitForCRDInit
    <3>2. Verdict(r) = "error" \/ r \in Standing
      BY <3>1 DEF Verdict, Standing
    <3>3. (Verdict(r) = "error") \in BOOLEAN
      OBVIOUS
    <3> QED BY <3>1, <3>2, <3>3, Zenon
  <2>2. CASE timesOut(c) \/ getFails(c)
    BY <2>2, Zenon DEF timesOut, getFails
  <2> QED BY <2>1, <2>2
<1>4. Grows /\ (failed \/ r \in Standing')
  BY <1>2, <1>3 DEF Grows, Stored, Standing
<1>5. trouble' \in [Callers -> BOOLEAN] /\ faults' \in 0 .. MaxFaults
  <2>1. trouble' = trouble \/ trouble' = [trouble EXCEPT ![c] = TRUE]
    BY DEF waitForCRDInit, timesOut, getFails, Blame
  <2>2. UNCHANGED faults \/ Fault
    BY Zenon DEF waitForCRDInit, timesOut, getFails
  <2>3. faults' \in 0 .. MaxFaults
    BY <2>2, CRDBoundsAssumption DEF Fault, TypeOK
  <2> QED BY <2>1, <2>3 DEF TypeOK
<1>6. TypeOK'
  BY <1>2, <1>3, <1>5, DoneMoves DEF TypeOK
<1>7. CallerOK(c)'
  BY <1>1, <1>2, <1>3, <1>4, IterationOK
<1>8. ASSUME NEW b \in Callers \ {c} PROVE CallerOK(b)'
  <2>1. Keeps(b)
    BY <1>2, <1>3, DoneMoves DEF Keeps
  <2> QED BY <1>4, <2>1, KeepsOK
<1> QED BY <1>6, <1>7, <1>8

\* The other steps of a caller move no loop: a call begins, the time is over, it dies.
LEMMA OtherOK ==
  ASSUME TypeOK, \A b \in Callers : CallerOK(b), NEW c \in Callers,
         Call(c) \/ timePasses(c) \/ Die(c)
  PROVE  TypeOK' /\ \A b \in Callers : CallerOK(b)'
<1>1. UNCHANGED <<exists, status, clash, lost, meddling>>
  BY DEF Call, timePasses, Die, server
<1>2. Grows
  BY <1>1 DEF Grows, Stored, Standing
<1>3. \A b \in Callers \ {c} : Keeps(b)
  BY DEF Keeps, Call, timePasses, Die, TypeOK
<1>4. CASE Call(c)
  <2>1. TypeOK'
    BY <1>1, <1>4, ListTyped, CRDBoundsAssumption DEF Call, TypeOK
  <2>2. pc'[c] = "create" /\ at'[c] = 1
    BY <1>4 DEF Call, TypeOK
  <2>3. CallerOK(c)'
    BY <2>2, BeforeStart DEF CallerOK
  <2> QED BY <1>2, <1>3, <2>1, <2>3, KeepsOK
<1>5. CASE timePasses(c)
  <2>1. TypeOK' /\ Keeps(c)
    BY <1>1, <1>5 DEF timePasses, TypeOK, Keeps
  <2> QED BY <1>2, <1>3, <2>1, KeepsOK
<1>6. CASE Die(c)
  <2>1. TypeOK'
    BY <1>1, <1>6, ListTyped, CRDBoundsAssumption DEF Die, Fault, TypeOK, Ended
  <2>2. pc'[c] = "dead"
    BY <1>6 DEF Die, TypeOK
  <2>3. CallerOK(c)'
    BY <2>2 DEF CallerOK
  <2> QED BY <1>2, <1>3, <2>1, <2>3, KeepsOK
<1> QED BY <1>4, <1>5, <1>6

\* The controllers of the API server and those who meddle with the definitions.
LEMMA ServerOK ==
  ASSUME TypeOK, \A b \in Callers : CallerOK(b), NEW r \in Resources,
         JudgeNames(r) \/ Establish(r) \/ Delete(r) \/ Clash(r) \/ Resolve(r)
  PROVE  TypeOK' /\ \A b \in Callers : CallerOK(b)'
<1>1. UNCHANGED <<pc, at, closed, lastErr, calls, refused, faults>>
  BY DEF JudgeNames, Establish, Delete, Clash, Resolve, place
<1>2. \A b \in Callers : Keeps(b)
  BY <1>1 DEF Keeps
<1>3. CASE JudgeNames(r) \/ Establish(r)
  <2>1. /\ UNCHANGED <<exists, clash, lost, trouble, meddling>>
        /\ status' \in [Resources -> Conditions]
        /\ \A q \in Resources : status[q].established => status'[q].established
    <3>1. CASE JudgeNames(r)
      <4>1. PICK n \in {"accepted", "rejected"} : status' = [status EXCEPT ![r].names = n]
        BY <3>1 DEF JudgeNames
      <4>2. status' \in [Resources -> Conditions]
        BY <4>1 DEF TypeOK, Conditions
      <4>3. \A q \in Resources : status[q].established => status'[q].established
        BY <4>1 DEF TypeOK, Conditions
      <4> QED BY <3>1, <4>2, <4>3 DEF JudgeNames
    <3>2. CASE Establish(r)
      <4>1. status' = [status EXCEPT ![r].established = TRUE]
        BY <3>2 DEF Establish
      <4>2. status' \in [Resources -> Conditions]
        BY <4>1 DEF TypeOK, Conditions
      <4>3. \A q \in Resources : status[q].established => status'[q].established
        BY <4>1 DEF TypeOK, Conditions
      <4> QED BY <3>2, <4>2, <4>3 DEF Establish
    <3> QED BY <1>3, <3>1, <3>2
  <2>2. TypeOK' /\ Grows
    BY <1>1, <2>1 DEF TypeOK, Grows, Stored, Standing
  <2> QED BY <1>2, <2>2, KeepsOK
<1>4. CASE Delete(r)
  <2>1. /\ lost' = lost \cup {r} /\ clash' = clash
        /\ \A q \in Resources \ {r} : exists'[q] = exists[q] /\ status'[q] = status[q]
    BY <1>4 DEF Delete, TypeOK
  <2>2. TypeOK'
    BY <1>1, <1>4, <2>1, CRDBoundsAssumption DEF Delete, Meddle, TypeOK, NoStatus, Conditions
  <2>3. Grows
    BY <2>1 DEF Grows, Stored, Standing
  <2> QED BY <1>2, <2>2, <2>3, KeepsOK
<1>5. CASE Clash(r) \/ Resolve(r)
  <2>1. TypeOK' /\ Grows
    <3>1. UNCHANGED <<exists, status, lost>> /\ clash' \subseteq Resources
      BY <1>5 DEF Clash, Resolve, TypeOK
    <3>2. trouble' = trouble \/ trouble' = [c \in Callers |-> TRUE]
      BY <1>5 DEF Clash, Resolve
    <3>3. trouble' \in [Callers -> BOOLEAN]
      BY <3>2 DEF TypeOK
    <3>4. meddling' \in 0 .. MaxMeddling
      BY <1>5, CRDBoundsAssumption DEF Clash, Resolve, Meddle, TypeOK
    <3> QED
      BY <1>1, <3>1, <3>3, <3>4 DEF TypeOK, Grows, Stored, Standing
  <2> QED BY <1>2, <2>1, KeepsOK
<1> QED BY <1>3, <1>4, <1>5

LEMMA CallersNext ==
  ASSUME TypeOK, \A b \in Callers : CallerOK(b), [Next]_vars
  PROVE  TypeOK' /\ \A b \in Callers : CallerOK(b)'
<1>1. CASE UNCHANGED vars
  BY <1>1 DEF vars, TypeOK, CallerOK, Before, Stored, Standing
<1>2. CASE Next
  BY <1>2, CreateOK, WaitOK, OtherOK, ServerOK DEF Next, Work
<1> QED BY <1>1, <1>2

LEMMA IInvNext == IInv /\ [Next]_vars => IInv'
<1> SUFFICES ASSUME IInv, [Next]_vars PROVE IInv'
  OBVIOUS
<1>1. TypeOK /\ \A b \in Callers : CallerOK(b)
  BY CallerByCaller
<1>2. TypeOK' /\ \A b \in Callers : CallerOK(b)'
  BY <1>1, CallersNext
<1>3. (IInv <=> TypeOK /\ \A c \in Callers : CallerOK(c))'
  BY CallerByCaller, PTL
<1> QED BY <1>2, <1>3

(***************************************************************************)
(* When CreateCRD returns nil, all its definitions are established, and    *)
(* an error of one does not keep the others from being created; for every  *)
(* list and any number of callers, deaths and deletions.                   *)
(***************************************************************************)
THEOREM NilIsTrustworthy == Spec => []NilMeansEstablished
<1>1. IInv => NilMeansEstablished
  BY DEF IInv
<1> QED BY <1>1, InitIInv, IInvNext, PTL DEF Spec

\* A definition that cannot be created does not keep the others from it.
THEOREM AllAreTried == Spec => []OthersAreCreated
<1>1. IInv => OthersAreCreated
  BY DEF IInv
<1> QED BY <1>1, InitIInv, IInvNext, PTL DEF Spec

\* Every variable has its type; the loops stay inside their list.
THEOREM TypesAreKept == Spec => []TypeOK
<1>1. IInv => TypeOK
  BY DEF IInv
<1> QED BY <1>1, InitIInv, IInvNext, PTL DEF Spec

-----------------------------------------------------------------------------
(***************************************************************************)
(* NoSpuriousError.  A call that nothing went wrong for has recorded no    *)
(* error so far, no names are in dispute, and every definition its loop    *)
(* has passed is stored: created by itself, by another caller or by an     *)
(* earlier call.                                                           *)
(***************************************************************************)
NoDispute == clash = {} /\ \A r \in Resources : status[r].names # "rejected"

QuietOK(c) ==
    pc[c] \in {"create", "wait", "error"} /\ ~trouble[c] =>
       /\ pc[c] # "error" /\ ~lastErr[c]
       /\ NoDispute
       /\ pc[c] = "create" => Before(c) \subseteq Stored
       /\ pc[c] = "wait" => Resources \subseteq Stored

\* A caller that does not move, and is in trouble if it was or if a
\* definition was deleted or met another one with its names.
LEMMA StillQuiet ==
  ASSUME NEW c \in Callers, QuietOK(c), Keeps(c),
         trouble'[c] \/ ( /\ ~trouble[c]
                          /\ Stored \subseteq Stored'
                          /\ NoDispute => NoDispute')
  PROVE  QuietOK(c)'
<1>1. Before(c)' = Before(c)
  BY DEF Before, Keeps
<1>. QED BY <1>1 DEF QuietOK, Keeps

\* An iteration of a loop that succeeds with its resource stored.
LEMMA QuietIteration ==
  ASSUME TypeOK, NEW c \in Callers, QuietOK(c), pc[c] \in {"create", "wait"},
         Done(c, FALSE), Stored \subseteq Stored', List[at[c]] \in Stored',
         trouble'[c] = trouble[c], NoDispute => NoDispute'
  PROVE  QuietOK(c)'
<1>. SUFFICES ASSUME ~trouble[c] PROVE QuietOK(c)'
  BY DEF QuietOK
<1>1. /\ lastErr'[c] = (lastErr[c] \/ FALSE)
      /\ \/ at[c] < Len(List) /\ at'[c] = at[c] + 1 /\ pc'[c] = pc[c]
         \/ /\ at[c] = Len(List) /\ at'[c] = 1
            /\ pc'[c] = IF pc[c] = "create" THEN "wait"
                        ELSE IF lastErr'[c] THEN "error" ELSE "nil"
  <2>1. FALSE \in BOOLEAN
    OBVIOUS
  <2>. QED BY <2>1, DoneMoves
<1>2. ~lastErr[c] /\ ~lastErr'[c] /\ NoDispute'
  BY <1>1, Zenon DEF QuietOK
<1>3. CASE at[c] < Len(List) /\ at'[c] = at[c] + 1 /\ pc'[c] = pc[c]
  <2>1. Before(c)' = Before(c) \cup {List[at[c]]}
    BY <1>3, BeforeGrows
  <2>. QED BY <1>2, <1>3, <2>1 DEF QuietOK
<1>4. CASE at[c] = Len(List) /\ at'[c] = 1 /\ pc[c] = "create" /\ pc'[c] = "wait"
  <2>1. Resources = Before(c) \cup {List[at[c]]}
    BY <1>4, BeforeIsAll
  <2>2. Resources' = Resources
    OBVIOUS
  <2>. QED BY <1>2, <1>4, <2>1, <2>2 DEF QuietOK
<1>5. CASE pc'[c] = "nil"
  BY <1>5 DEF QuietOK
<1>. QED BY <1>1, <1>2, <1>3, <1>4, <1>5

\* The two loops.  A definition that is there already is no error, and the
\* verdict of the poll is one only without a definition or about its names.
LEMMA WorkQuiet ==
  ASSUME TypeOK, \A b \in Callers : QuietOK(b), NEW c \in Callers,
         createCRD(c) \/ waitForCRDInit(c)
  PROVE  \A b \in Callers : QuietOK(b)'
<1>1. PICK r \in Resources : r = List[at[c]]
  BY ListTyped DEF TypeOK
<1>2. UNCHANGED <<trouble, refused, lost, clash>>
  BY DEF createCRD, waitForCRDInit, server, Store
<1>3. /\ Stored \subseteq Stored' /\ (NoDispute => NoDispute')
      /\ pc[c] = "create" => r \in Stored'
      /\ pc[c] = "wait" => UNCHANGED <<exists, status>>
  <2>1. CASE createCRD(c)
    <3>1. Store(r) /\ pc[c] = "create"
      BY <1>1, <2>1 DEF createCRD
    <3>2. PICK first \in BOOLEAN :
             status' = IF exists[r] THEN status ELSE [status EXCEPT ![r].namesFirst = first]
      BY <3>1 DEF Store
    <3>3. \A q \in Resources : status'[q].names = status[q].names
      BY <3>2 DEF TypeOK, Conditions
    <3>4. /\ exists'[r] /\ \A q \in Resources : exists[q] => exists'[q]
      BY <3>1 DEF Store, TypeOK
    <3>. QED BY <1>2, <3>1, <3>3, <3>4 DEF NoDispute, Stored
  <2>2. CASE waitForCRDInit(c)
    BY <2>2 DEF waitForCRDInit, server, NoDispute, Stored
  <2>. QED BY <2>1, <2>2
<1>4. PICK failed \in BOOLEAN :
         /\ Done(c, failed) /\ pc[c] \in {"create", "wait"}
         /\ failed => pc[c] = "wait" /\ (~exists[r] \/ status[r].names = "rejected")
         /\ pc[c] = "wait" /\ ~failed => exists[r]
  <2>1. CASE createCRD(c)
    <3>1. Done(c, FALSE)
      <4>1. ~IsError(Answer(r)) /\ Done(c, IsError(Answer(r)))
        BY <1>1, <2>1 DEF createCRD, IsError, Answer
      <4>2. IsError(Answer(r)) = FALSE
        BY <4>1 DEF IsError
      <4>. QED BY <4>1, <4>2, Zenon
    <3>. QED BY <2>1, <3>1, Zenon DEF createCRD
  <2>2. CASE waitForCRDInit(c)
    <3>1. Done(c, Verdict(r) = "error") /\ Verdict(r) # "again" /\ pc[c] = "wait"
      BY <1>1, <2>2 DEF waitForCRDInit
    <3>2. /\ Verdict(r) = "error" => ~exists[r] \/ status[r].names = "rejected"
          /\ Verdict(r) # "error" => exists[r]
      BY DEF Verdict
    <3>3. (Verdict(r) = "error") \in BOOLEAN
      OBVIOUS
    <3>. QED BY <3>1, <3>2, <3>3, Zenon
  <2>. QED BY <2>1, <2>2
<1>5. QuietOK(c)'
  <2>1. CASE trouble[c]
    BY <1>2, <2>1 DEF QuietOK
  <2>2. CASE ~trouble[c] /\ failed
    BY <1>4, <2>2 DEF QuietOK, NoDispute, Stored
  <2>3. CASE ~failed
    <3>1. Done(c, FALSE)
      <4>1. failed = FALSE
        BY <2>3
      <4>. QED BY <1>4, <4>1
    <3>2. r \in Stored'
      BY <1>3, <1>4, <2>3 DEF Stored
    <3>. QED BY <1>1, <1>2, <1>3, <1>4, <3>1, <3>2, QuietIteration
  <2>. QED BY <2>1, <2>2, <2>3
<1>6. ASSUME NEW b \in Callers \ {c} PROVE QuietOK(b)'
  <2>1. Keeps(b)
    BY <1>2, <1>4, DoneMoves DEF Keeps
  <2>. QED BY <1>2, <1>3, <2>1, StillQuiet DEF QuietOK
<1>. QED BY <1>5, <1>6

\* A failed request and a time-out are the trouble of their caller only.
LEMMA FailureQuiet ==
  ASSUME TypeOK, \A b \in Callers : QuietOK(b), NEW c \in Callers,
         createFails(c) \/ timesOut(c) \/ getFails(c)
  PROVE  \A b \in Callers : QuietOK(b)'
<1>1. PICK r \in Resources : r = List[at[c]]
  BY ListTyped DEF TypeOK
<1>2. PICK failed \in BOOLEAN : Done(c, failed) /\ pc[c] \in {"create", "wait"}
  BY Zenon DEF createFails, timesOut, getFails, IsError
<1>3. lost' = lost /\ trouble' = [trouble EXCEPT ![c] = TRUE]
  BY DEF createFails, timesOut, getFails, Blame
<1>4. Stored \subseteq Stored' /\ (NoDispute => NoDispute')
  <2>1. CASE Store(r)
    <3>1. PICK first \in BOOLEAN :
             status' = IF exists[r] THEN status ELSE [status EXCEPT ![r].namesFirst = first]
      BY <2>1 DEF Store
    <3>2. \A q \in Resources : status'[q].names = status[q].names
      BY <3>1 DEF TypeOK, Conditions
    <3>3. UNCHANGED clash /\ \A q \in Resources : exists[q] => exists'[q]
      BY <2>1 DEF Store, TypeOK
    <3>. QED BY <3>2, <3>3 DEF NoDispute, Stored
  <2>2. CASE UNCHANGED server
    BY <2>2 DEF server, NoDispute, Stored
  <2>. QED BY <1>1, <2>1, <2>2 DEF createFails, timesOut, getFails
<1>5. trouble'[c] /\ \A b \in Callers \ {c} : trouble'[b] = trouble[b]
  BY <1>3 DEF TypeOK
<1>6. \A b \in Callers \ {c} : refused'[b] = refused[b]
  BY DEF createFails, timesOut, getFails, TypeOK
<1>7. ASSUME NEW b \in Callers \ {c} PROVE QuietOK(b)'
  <2>1. Keeps(b)
    BY <1>2, <1>6, DoneMoves DEF Keeps
  <2>. QED BY <1>4, <1>5, <2>1, StillQuiet DEF QuietOK
<1>. QED BY <1>5, <1>7 DEF QuietOK

\* A call begins in trouble if names are in dispute, else with nothing behind it.
LEMMA OtherQuiet ==
  ASSUME TypeOK, \A b \in Callers : QuietOK(b), NEW c \in Callers,
         Call(c) \/ timePasses(c) \/ Die(c)
  PROVE  \A b \in Callers : QuietOK(b)'
<1>1. UNCHANGED <<exists, status, clash>> /\ Stored' = Stored /\ (NoDispute' <=> NoDispute)
  BY DEF Call, timePasses, Die, server, Stored, NoDispute
<1>2. \A b \in Callers \ {c} : Keeps(b) /\ trouble'[b] = trouble[b]
  BY DEF Keeps, Call, timePasses, Die, TypeOK
<1>3. CASE Call(c)
  <2>1. /\ pc'[c] = "create" /\ at'[c] = 1 /\ ~lastErr'[c]
        /\ trouble'[c] <=> ~NoDispute
    <3>1. pc'[c] = "create" /\ at'[c] = 1 /\ ~lastErr'[c]
      BY <1>3 DEF Call, TypeOK
    <3>2. trouble'[c] <=> ~NoDispute
      BY <1>3 DEF Call, TypeOK, NoDispute
    <3>. QED BY <3>1, <3>2
  <2>2. QuietOK(c)'
    BY <1>1, <2>1, BeforeStart DEF QuietOK
  <2>. QED BY <1>1, <1>2, <2>2, StillQuiet DEF QuietOK
<1>4. CASE timePasses(c)
  <2>1. Keeps(c) /\ trouble'[c] = trouble[c]
    BY <1>4 DEF timePasses, Keeps
  <2>. QED BY <1>1, <1>2, <2>1, StillQuiet DEF QuietOK
<1>5. CASE Die(c)
  <2>1. pc'[c] = "dead"
    BY <1>5 DEF Die, TypeOK
  <2>2. QuietOK(c)'
    BY <2>1 DEF QuietOK
  <2>. QED BY <1>1, <1>2, <2>2, StillQuiet DEF QuietOK
<1>. QED BY <1>3, <1>4, <1>5

\* The controllers reject names only in a dispute; deletions and disputes are
\* the trouble of every caller.
LEMMA ServerQuiet ==
  ASSUME TypeOK, \A b \in Callers : QuietOK(b), NEW r \in Resources,
         JudgeNames(r) \/ Establish(r) \/ Delete(r) \/ Clash(r) \/ Resolve(r)
  PROVE  \A b \in Callers : QuietOK(b)'
<1>1. \A b \in Callers : Keeps(b)
  BY DEF Keeps, JudgeNames, Establish, Delete, Clash, Resolve, place
<1>2. CASE Delete(r) \/ Clash(r)
  <2>1. \A b \in Callers : trouble'[b]
    BY <1>2 DEF Delete, Clash
  <2>. QED BY <1>1, <2>1, StillQuiet
<1>3. CASE JudgeNames(r) \/ Establish(r) \/ Resolve(r)
  <2>1. UNCHANGED <<trouble, exists>> /\ Stored' = Stored
    BY <1>3 DEF JudgeNames, Establish, Resolve, Stored
  <2>2. NoDispute => NoDispute'
    <3>1. CASE JudgeNames(r)
      <4>. SUFFICES ASSUME NoDispute PROVE NoDispute'
        OBVIOUS
      <4>1. r \notin clash /\ clash' = clash
        BY <3>1 DEF NoDispute, JudgeNames
      <4>2. status' = [status EXCEPT ![r].names = "accepted"]
        BY <3>1, <4>1 DEF JudgeNames
      <4>3. \A q \in Resources : status'[q].names # "rejected"
        BY <4>2 DEF NoDispute, TypeOK, Conditions
      <4>. QED BY <4>1, <4>3 DEF NoDispute
    <3>2. CASE Establish(r)
      <4>1. status' = [status EXCEPT ![r].established = TRUE] /\ clash' = clash
        BY <3>2 DEF Establish
      <4>2. \A q \in Resources : status'[q].names = status[q].names
        BY <4>1 DEF TypeOK, Conditions
      <4>. QED BY <4>1, <4>2 DEF NoDispute
    <3>3. CASE Resolve(r)
      BY <3>3 DEF Resolve, NoDispute
    <3>. QED BY <1>3, <3>1, <3>2, <3>3
  <2>. QED BY <1>1, <2>1, <2>2, StillQuiet DEF QuietOK
<1>. QED BY <1>2, <1>3

\* The invariant is inductive.
LEMMA QuietNext ==
  ASSUME TypeOK, \A b \in Callers : QuietOK(b), [Next]_vars
  PROVE  \A b \in Callers : QuietOK(b)'
<1>1. CASE UNCHANGED vars
  BY <1>1 DEF vars, QuietOK, NoDispute, Before, Stored
<1>2. CASE Next
  BY <1>2, WorkQuiet, FailureQuiet, OtherQuiet, ServerQuiet, Zenon DEF Next, Work
<1>. QED BY <1>1, <1>2

(***************************************************************************)
(* CreateCRD returns an error only if something went wrong during the      *)
(* call, however many others create the same definitions at the same time  *)
(* and wherever an earlier call died.                                      *)
(***************************************************************************)
THEOREM ErrorsHaveACause == Spec => []NoSpuriousError
<1>. DEFINE AllQuiet == \A c \in Callers : QuietOK(c)
<1>1. Init => AllQuiet
  BY DEF Init, QuietOK
<1>2. TypeOK /\ AllQuiet /\ [Next]_vars => AllQuiet'
  BY QuietNext
<1>3. AllQuiet => NoSpuriousError
  BY DEF QuietOK, NoSpuriousError
<1>. HIDE DEF AllQuiet
<1>. QED BY <1>1, <1>2, <1>3, TypesAreKept, PTL DEF Spec
=============================================================================
