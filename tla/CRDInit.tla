------------------------------ MODULE CRDInit ------------------------------
(***************************************************************************)
(* CreateCRD (pkg/crd/crd.go): creates the custom resource definitions of  *)
(* a list and waits until the API server has established each of them.     *)
(* Several callers may do so at once, die on the way and call again; the   *)
(* definitions are shared, can be deleted under them and can meet another  *)
(* definition that has their names.                                        *)
(***************************************************************************)
EXTENDS Naturals, Sequences

CONSTANTS
    Resources,    \* the custom resources
    List,         \* the order in which CreateCRD is given them
    Callers,
    MaxCalls,     \* bound on the calls of all callers
    MaxFaults,    \* bound on failed requests and deaths of callers
    MaxMeddling   \* bound on deletions and clashes of names

ASSUME ListAssumption ==
    /\ List \in Seq(Resources) /\ Len(List) > 0
    /\ \A r \in Resources : \E i \in 1 .. Len(List) : List[i] = r

ASSUME CRDBoundsAssumption ==
    MaxCalls \in Nat /\ MaxFaults \in Nat /\ MaxMeddling \in Nat

VARIABLES
    \* the API server
    exists,       \* exists[r]: the definition is stored
    status,       \* status[r]: its conditions
    clash,        \* the resources whose names another definition has
    \* the callers
    pc,
    at,           \* at[c]: the position of the loop in List
    lastErr,      \* lastErr[c]: is lastErr not nil?
    closed,       \* closed[c]: the time-out of the current wait.Poll is over
    \* bookkeeping
    calls,        \* the calls so far
    lost,         \* the resources whose definition was deleted by someone
    refused,      \* refused[c]: the resources whose creation failed in this call
    trouble,      \* trouble[c]: something this call is not to blame for went wrong
    faults, meddling

server == <<exists, status, clash>>
place  == <<pc, at, closed>>
vars == <<exists, status, clash, pc, at, lastErr, closed, calls, lost, refused,
          trouble, faults, meddling>>

Ended == {"nil", "error", "dead"}

Conditions == [names : {"unknown", "accepted", "rejected"}, established : BOOLEAN,
               namesFirst : BOOLEAN]

NoStatus == [names |-> "unknown", established |-> FALSE, namesFirst |-> TRUE]

Init ==
    /\ exists = [r \in Resources |-> FALSE]
    /\ status = [r \in Resources |-> NoStatus]
    /\ clash = {}
    /\ pc = [c \in Callers |-> "idle"]
    /\ at = [c \in Callers |-> 1]
    /\ lastErr = [c \in Callers |-> FALSE]
    /\ closed = [c \in Callers |-> FALSE]
    /\ calls = 0
    /\ lost = {}
    /\ refused = [c \in Callers |-> {}]
    /\ trouble = [c \in Callers |-> FALSE]
    /\ faults = 0
    /\ meddling = 0

Fault == faults < MaxFaults /\ faults' = faults + 1
Meddle == meddling < MaxMeddling /\ meddling' = meddling + 1

Blame(c) == trouble' = [trouble EXCEPT ![c] = TRUE]

-----------------------------------------------------------------------------
\* A call of CreateCRD, the first or another one after an error or a death.
Call(c) ==
    /\ pc[c] \in {"idle", "error", "dead"}
    /\ calls < MaxCalls
    /\ calls' = calls + 1
    /\ pc' = [pc EXCEPT ![c] = "create"]
    /\ at' = [at EXCEPT ![c] = 1]
    /\ lastErr' = [lastErr EXCEPT ![c] = FALSE]
    /\ closed' = [closed EXCEPT ![c] = FALSE]
    /\ refused' = [refused EXCEPT ![c] = {}]
    /\ trouble' = [trouble EXCEPT ![c] = clash # {} \/ \E r \in Resources : status[r].names = "rejected"]
    /\ UNCHANGED <<server, lost, faults, meddling>>

\* Faulty variants: a success overwrites lastErr; the first error ends the
\* call; the loop runs one element too far.
RecordLast(c, failed) == lastErr' = [lastErr EXCEPT ![c] = failed]

AdvanceOrGiveUp(c, failed) ==
    /\ closed' = [closed EXCEPT ![c] = FALSE]
    /\ \/ /\ at[c] < Len(List) /\ ~failed
          /\ at' = [at EXCEPT ![c] = @ + 1]
          /\ UNCHANGED pc
       \/ /\ at[c] = Len(List) \/ failed
          /\ at' = [at EXCEPT ![c] = 1]
          /\ pc' = [pc EXCEPT ![c] = IF failed THEN "error"
                                     ELSE IF @ = "create" THEN "wait" ELSE "nil"]

AdvanceTooFar(c, failed) ==
    /\ closed' = [closed EXCEPT ![c] = FALSE]
    /\ \/ /\ at[c] <= Len(List)
          /\ at' = [at EXCEPT ![c] = @ + 1]
          /\ UNCHANGED pc
       \/ /\ at[c] > Len(List)
          /\ at' = [at EXCEPT ![c] = 1]
          /\ pc' = [pc EXCEPT ![c] = "error"]

\* An error of one resource is remembered, a success changes nothing.
Record(c, failed) == lastErr' = [lastErr EXCEPT ![c] = @ \/ failed]

\* The next resource of the loop, whatever became of this one; after the last
\* one the other loop, or the return of lastErr.
Advance(c, failed) ==
    /\ closed' = [closed EXCEPT ![c] = FALSE]
    /\ \/ /\ at[c] < Len(List)
          /\ at' = [at EXCEPT ![c] = @ + 1]
          /\ UNCHANGED pc
       \/ /\ at[c] = Len(List)
          /\ at' = [at EXCEPT ![c] = 1]
          /\ pc' = [pc EXCEPT ![c] = IF @ = "create" THEN "wait"
                                     ELSE IF lastErr'[c] THEN "error" ELSE "nil"]

Done(c, failed) == Record(c, failed) /\ Advance(c, failed)

-----------------------------------------------------------------------------
\* Faulty variant: a definition that is there already is an error.
IsErrorStrict(answer) == answer # "created"

\* createCRD tolerates one error of Create.
IsError(answer) == answer \notin {"created", "AlreadyExists"}

\* The API server creates the definition unless it has it.
Answer(r) == IF exists[r] THEN "AlreadyExists" ELSE "created"

Store(r) ==
    /\ exists' = [exists EXCEPT ![r] = TRUE]
    /\ \E first \in BOOLEAN :
          status' = IF exists[r] THEN status
                    ELSE [status EXCEPT ![r].namesFirst = first]
    /\ UNCHANGED clash

createCRD(c) ==
    /\ pc[c] = "create"
    /\ Store(List[at[c]])
    /\ Done(c, IsError(Answer(List[at[c]])))
    /\ UNCHANGED <<calls, lost, refused, trouble, faults, meddling>>

\* The request fails, with or without having been carried out.
createFails(c) ==
    /\ pc[c] = "create"
    /\ Fault
    /\ Store(List[at[c]]) \/ UNCHANGED server
    /\ Done(c, IsError("failed"))
    /\ refused' = [refused EXCEPT ![c] = @ \cup {List[at[c]]}]
    /\ Blame(c)
    /\ UNCHANGED <<calls, lost, meddling>>

(***************************************************************************)
(* The function that waitForCRDInit polls with: the first condition in the *)
(* order of the status that decides.  Get fails without a definition.      *)
(***************************************************************************)
Verdict(r) ==
    LET s == status[r] IN
    IF ~exists[r] THEN "error"
    ELSE IF s.established /\ (s.names # "rejected" \/ ~s.namesFirst) THEN "done"
    ELSE IF s.names = "rejected" THEN "error"
    ELSE "again"

\* A tick of wait.Poll on which the condition function decides.
waitForCRDInit(c) ==
    /\ pc[c] = "wait"
    /\ Verdict(List[at[c]]) # "again"
    /\ Done(c, Verdict(List[at[c]]) = "error")
    /\ UNCHANGED <<server, calls, lost, refused, trouble, faults, meddling>>

\* Faulty variant: a time-out of 0, which wait.Poll takes for an infinite one.
timesOutNever(c) == FALSE /\ UNCHANGED vars

\* The channel of the ticks is closed: one more look, then ErrWaitTimeout.
timesOut(c) ==
    /\ pc[c] = "wait"
    /\ closed[c]
    /\ Verdict(List[at[c]]) = "again"
    /\ Done(c, TRUE)
    /\ Blame(c)
    /\ UNCHANGED <<server, calls, lost, refused, faults, meddling>>

\* Get fails: the poll ends with its error.
getFails(c) ==
    /\ pc[c] = "wait"
    /\ Fault
    /\ Done(c, TRUE)
    /\ Blame(c)
    /\ UNCHANGED <<server, calls, lost, refused, meddling>>

timePasses(c) ==
    /\ pc[c] = "wait" /\ ~closed[c]
    /\ closed' = [closed EXCEPT ![c] = TRUE]
    /\ UNCHANGED <<server, pc, at, lastErr, calls, lost, refused, trouble, faults, meddling>>

\* The process of the caller dies.
Die(c) ==
    /\ pc[c] \in {"create", "wait"}
    /\ Fault
    /\ pc' = [pc EXCEPT ![c] = "dead"]
    /\ at' = [at EXCEPT ![c] = 1]
    /\ lastErr' = [lastErr EXCEPT ![c] = FALSE]
    /\ closed' = [closed EXCEPT ![c] = FALSE]
    /\ refused' = [refused EXCEPT ![c] = {}]
    /\ UNCHANGED <<server, calls, lost, trouble, meddling>>

-----------------------------------------------------------------------------
\* External: the naming controller judges the names.  A definition that was
\* established before stays so when it loses them.
JudgeNames(r) ==
    /\ exists[r]
    /\ status[r].names # IF r \in clash THEN "rejected" ELSE "accepted"
    /\ status' = [status EXCEPT ![r].names = IF r \in clash THEN "rejected" ELSE "accepted"]
    /\ UNCHANGED <<exists, clash, place, lastErr, calls, lost, refused, trouble, faults, meddling>>

\* External: the establishing controller.
Establish(r) ==
    /\ exists[r]
    /\ status[r].names = "accepted" /\ ~status[r].established
    /\ status' = [status EXCEPT ![r].established = TRUE]
    /\ UNCHANGED <<exists, clash, place, lastErr, calls, lost, refused, trouble, faults, meddling>>

\* External: somebody deletes a definition, or creates one with its names, or
\* removes that one again.
Delete(r) ==
    /\ exists[r]
    /\ Meddle
    /\ exists' = [exists EXCEPT ![r] = FALSE]
    /\ status' = [status EXCEPT ![r] = NoStatus]
    /\ lost' = lost \cup {r}
    /\ trouble' = [c \in Callers |-> TRUE]
    /\ UNCHANGED <<clash, place, lastErr, calls, refused, faults>>

Clash(r) ==
    /\ r \notin clash
    /\ Meddle
    /\ clash' = clash \cup {r}
    /\ trouble' = [c \in Callers |-> TRUE]
    /\ UNCHANGED <<exists, status, place, lastErr, calls, lost, refused, faults>>

Resolve(r) ==
    /\ r \in clash
    /\ clash' = clash \ {r}
    /\ UNCHANGED <<exists, status, place, lastErr, calls, lost, refused, trouble, faults, meddling>>

-----------------------------------------------------------------------------
Work(c) == createCRD(c) \/ waitForCRDInit(c) \/ timesOut(c)

Next ==
    \/ \E c \in Callers :
          Call(c) \/ Work(c) \/ createFails(c) \/ getFails(c) \/ timePasses(c) \/ Die(c)
    \/ \E r \in Resources :
          JudgeNames(r) \/ Establish(r) \/ Delete(r) \/ Clash(r) \/ Resolve(r)

Spec == Init /\ [][Next]_vars

(***************************************************************************)
(* A caller runs and its timers fire.  Nothing is assumed of the           *)
(* controllers of the API server.                                          *)
(***************************************************************************)
FairSpec == Spec /\ \A c \in Callers : WF_vars(Work(c)) /\ WF_vars(timePasses(c))

-----------------------------------------------------------------------------
\* Type invariant.
TypeOK ==
    /\ exists \in [Resources -> BOOLEAN]
    /\ status \in [Resources -> Conditions]
    /\ clash \subseteq Resources
    /\ pc \in [Callers -> {"idle", "create", "wait"} \cup Ended]
    /\ at \in [Callers -> 1 .. Len(List)]
    /\ lastErr \in [Callers -> BOOLEAN]
    /\ closed \in [Callers -> BOOLEAN]
    /\ calls \in 0 .. MaxCalls
    /\ lost \subseteq Resources
    /\ refused \in [Callers -> SUBSET Resources]
    /\ trouble \in [Callers -> BOOLEAN]
    /\ faults \in 0 .. MaxFaults
    /\ meddling \in 0 .. MaxMeddling

(***************************************************************************)
(* When CreateCRD has returned nil every definition of its list is         *)
(* established, unless somebody deleted it, also when it was created by    *)
(* another caller, when its names were taken in between and when the       *)
(* resources after it went well (lastErr is never overwritten by nil).     *)
(***************************************************************************)
NilMeansEstablished ==
    \A c \in Callers : pc[c] = "nil" =>
       \A r \in Resources \ lost : exists[r] /\ status[r].established

(***************************************************************************)
(* A definition that cannot be created does not keep the ones after it     *)
(* from being created (both loops of CreateCRD run to the end).            *)
(***************************************************************************)
OthersAreCreated ==
    \A c \in Callers : pc[c] \in {"wait", "nil", "error"} =>
       \A r \in Resources \ (lost \cup refused[c]) : exists[r]

(***************************************************************************)
(* CreateCRD blames nobody for nothing: a call that met no failed request, *)
(* time-out, deletion or clash of names returns nil, also when other       *)
(* callers created the same definitions before or at the same time, or an  *)
(* earlier call died half-way (the IsAlreadyExists check of createCRD).    *)
(***************************************************************************)
NoSpuriousError == \A c \in Callers : pc[c] = "error" => trouble[c]

(***************************************************************************)
(* Every call of CreateCRD ends, whatever the API server does or leaves    *)
(* undone: wait.Poll gives up after the time-out of the context.           *)
(***************************************************************************)
CallsEnd == \A c \in Callers : pc[c] \in {"create", "wait"} ~> pc[c] \in Ended
=============================================================================
