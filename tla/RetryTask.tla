----------------------------- MODULE RetryTask -----------------------------
(***************************************************************************)
(* task.DoRetryWithTimeout of sched-ops: a goroutine runs the attempts of  *)
(* a caller and hands the outcome over on an unbuffered channel, on which  *)
(* the caller waits.  The deadline is looked at only between two attempts: *)
(* an attempt that has begun is never abandoned, and its success is        *)
(* returned even when the deadline has passed meanwhile.                   *)
(***************************************************************************)
CONSTANT Callers

VARIABLES
    task,      \* task[c]: what the goroutine of c is doing
    expired    \* expired[c]: is the deadline of c's context over?

Outcomes == {"ok", "final", "timedOut"}

States == {"none", "select", "attempt"} \cup Outcomes

NoTasks == task = [c \in Callers |-> "none"] /\ expired = [c \in Callers |-> FALSE]

\* DoRetryWithTimeout is called; the deadline may be now (a timeout of 0).
Begin(c, over) ==
    /\ task' = [task EXCEPT ![c] = "select"]
    /\ expired' = [expired EXCEPT ![c] = over]

DeadlinePasses(c) ==
    /\ task[c] \in {"select", "attempt"} /\ ~expired[c]
    /\ expired' = [expired EXCEPT ![c] = TRUE]
    /\ UNCHANGED task

\* The select of the loop, also after the sleep between two attempts.
Select(c) ==
    /\ task[c] = "select"
    /\ task' = [task EXCEPT ![c] = IF expired[c] THEN "timedOut" ELSE "attempt"]
    /\ UNCHANGED expired

\* Faulty variant: an error to retry ends the loop like any other outcome.
AttemptReturnsUnfiltered(c, result) ==
    /\ task[c] = "attempt"
    /\ task' = [task EXCEPT ![c] = result]
    /\ UNCHANGED expired

\* The attempt returns: nil, an error to retry ("again") or a final error.
AttemptReturns(c, result) ==
    /\ task[c] = "attempt"
    /\ task' = [task EXCEPT ![c] = IF result = "again" THEN "select" ELSE result]
    /\ UNCHANGED expired

\* Faulty variant: the caller also waits for the deadline of its context.
ReturnsOnDeadline(c, outcome) ==
    \/ task[c] = outcome
    \/ expired[c] /\ task[c] \in {"select", "attempt"} /\ outcome = "timedOut"

\* The goroutine has an outcome to hand over to the caller.
Returns(c, outcome) == task[c] = outcome

\* The caller takes the outcome; the goroutine ends with the hand-over.
End(c) ==
    /\ task' = [task EXCEPT ![c] = IF @ \in Outcomes THEN "none" ELSE @]
    /\ expired' = [expired EXCEPT ![c] = FALSE]

\* The process ends, and the goroutine with it.
Reset(c) ==
    /\ task' = [task EXCEPT ![c] = "none"]
    /\ expired' = [expired EXCEPT ![c] = FALSE]
=============================================================================
