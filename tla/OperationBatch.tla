--------------------------- MODULE OperationBatch ---------------------------
(***************************************************************************)
(* What executeOperations promises its callers, the workloads, without     *)
(* goroutines, channels or an internal context: a batch of operations runs *)
(* until it returns one of three outcomes, each for the right reason.      *)
(***************************************************************************)
CONSTANT Slot  \* the operations of the plan

VARIABLES
  performed,        \* operations that succeeded at least once
  failed,           \* an operation has failed
  cancelRequested,  \* the caller's context is cancelled
  outcome

vars == <<performed, failed, cancelRequested, outcome>>

Init ==
  /\ performed = {}
  /\ failed = FALSE
  /\ cancelRequested \in BOOLEAN
  /\ outcome = "running"

Succeed(slot) ==
  /\ outcome = "running"
  /\ performed' = performed \cup {slot}
  /\ UNCHANGED <<failed, cancelRequested, outcome>>

Fail ==
  /\ outcome = "running"
  /\ failed' = TRUE
  /\ UNCHANGED <<performed, cancelRequested, outcome>>

RequestCancel ==
  /\ cancelRequested' = TRUE
  /\ UNCHANGED <<performed, failed, outcome>>

\* Success means a complete plan, an I/O error that an operation failed, and
\* context.Canceled that the caller asked for it.
Return(result) ==
  /\ outcome = "running"
  /\ \/ result = "none" /\ performed = Slot /\ ~failed
     \/ result = "io" /\ failed
     \/ result = "canceled" /\ cancelRequested
  /\ outcome' = result
  /\ UNCHANGED <<performed, failed, cancelRequested>>

Next ==
  \/ \E slot \in Slot : Succeed(slot)
  \/ Fail
  \/ RequestCancel
  \/ \E result \in {"none", "io", "canceled"} : Return(result)

Spec == Init /\ [][Next]_vars
=============================================================================
