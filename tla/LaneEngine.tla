----------------------------- MODULE LaneEngine -----------------------------
(***************************************************************************)
(* executeOperations of src/benchmark/workload.go: one goroutine per       *)
(* worker and queue lane performs its share of the plan and hands every    *)
(* result to the calling goroutine over an unbuffered channel; a waiter    *)
(* goroutine closes the channel once the wait group is empty.              *)
(*                                                                         *)
(* An action is what happens between two points where the goroutines can   *)
(* interact: reading the context, performing an operation, the rendezvous  *)
(* on the channel, cancelling, an operation on the wait group.             *)
(*                                                                         *)
(* The definitions marked "faulty" are plausible mistakes in the action    *)
(* below them; the properties are strong enough to reject each of them.    *)
(***************************************************************************)
EXTENDS Operations, FiniteSets, Functions

CONSTANTS
  Workers,     \* len(plans)
  QueueDepth,  \* config.QueueDepth
  Plans,       \* the operations of each worker
  MaxCycles    \* bound: passes a timed lane makes over its operations

ASSUME EngineAssumption ==
  /\ Workers \in Nat \ {0}
  /\ QueueDepth \in Nat \ {0}
  /\ Plans \in [0..(Workers - 1) -> Seq(Operation)]
  /\ MaxCycles \in Nat \ {0}

laneOperations(lane) == operationsForLane(Plans[lane[1]], lane[2], QueueDepth)

\* A lane is <<worker, queue slot>>; a lane without operations is never started.
Lane == {lane \in (0..(Workers - 1)) \X (0..(QueueDepth - 1)) : laneOperations(lane) # << >>}

Before(k, l) == k[1] < l[1] \/ (k[1] = l[1] /\ k[2] < l[2])

VARIABLES
  pc,              \* where each lane goroutine is
  position,        \* index of the lane's current operation
  cycle,           \* the pass the lane is in; firstCycle is cycle = 1
  pending,         \* the error in the lane's last result
  waitGroup,       \* counter of the sync.WaitGroup
  waiter,          \* the goroutine that closes the channel
  duration,        \* whether the duration has been measured
  collector,       \* the calling goroutine
  firstError,
  measurement,
  parentCancelled, \* the caller's context
  cancelled,       \* the derived context the lanes share
  timed,           \* config.Duration > 0
  expired,         \* time.Now() is no longer before the deadline
  performed,       \* history: the operations that succeeded at least once
  late             \* history: operations each lane began under a cancelled context

laneVars == <<pc, position, cycle, pending>>
waitVars == <<waitGroup, waiter, duration>>
callVars == <<collector, firstError, measurement>>
contextVars == <<parentCancelled, cancelled, timed, expired>>
history == <<performed, late>>
vars == <<laneVars, waitVars, callVars, contextVars, history>>

LaneStates == {"unborn", "check", "deadline", "perform", "send", "cancel", "passEnd", "exit", "done"}
Errors == {"none", "canceled", "io"}
Measurement == [Bytes : Nat, Operations : Nat, Reads : Nat, Writes : Nat]

\* Every operation of the plan, named by its lane and its place there.
Slot == UNION {{l} \X DOMAIN laneOperations(l) : l \in Lane}

current(l) == laneOperations(l)[position[l]]

Init ==
  /\ pc = [l \in Lane |-> "unborn"]
  /\ position = [l \in Lane |-> 1]
  /\ cycle = [l \in Lane |-> 1]
  /\ pending = [l \in Lane |-> "none"]
  /\ waitGroup = 0
  /\ waiter = "unborn"
  /\ duration = "unset"
  /\ collector = "spawning"
  /\ firstError = "none"
  /\ measurement = [Bytes |-> 0, Operations |-> 0, Reads |-> 0, Writes |-> 0]
  /\ parentCancelled \in BOOLEAN
  /\ cancelled = parentCancelled
  /\ timed \in BOOLEAN
  /\ expired = FALSE
  /\ performed = {}
  /\ late = [l \in Lane |-> 0]

Goto(l, label) == pc' = [pc EXCEPT ![l] = label]

-----------------------------------------------------------------------------
(* The calling goroutine *)

\* Faulty: one Add per worker instead of one per lane.
SpawnOneAddPerWorker(l) ==
  /\ collector = "spawning"
  /\ pc[l] = "unborn"
  /\ \A k \in Lane : Before(k, l) => pc[k] # "unborn"
  /\ waitGroup' = waitGroup + (IF l[2] = 0 THEN 1 ELSE 0)
  /\ Goto(l, "check")
  /\ UNCHANGED <<position, cycle, pending, waiter, duration, callVars, contextVars, history>>

Spawn(l) ==
  /\ collector = "spawning"
  /\ pc[l] = "unborn"
  /\ \A k \in Lane : Before(k, l) => pc[k] # "unborn"
  /\ waitGroup' = waitGroup + 1
  /\ Goto(l, "check")
  /\ UNCHANGED <<position, cycle, pending, waiter, duration, callVars, contextVars, history>>

StartWaiter ==
  /\ collector = "spawning"
  /\ \A l \in Lane : pc[l] # "unborn"
  /\ waiter' = "wait"
  /\ collector' = "range"
  /\ UNCHANGED <<laneVars, waitGroup, duration, firstError, measurement, contextVars, history>>

counted(m, operation) ==
  [Bytes      |-> m.Bytes + operation.size,
   Operations |-> m.Operations + 1,
   Reads      |-> m.Reads + (IF operation.write THEN 0 ELSE 1),
   Writes     |-> m.Writes + (IF operation.write THEN 1 ELSE 0)]

afterSend(l) ==
  CASE pending[l] = "io"       -> "cancel"
    [] pending[l] = "canceled" -> "exit"
    [] pending[l] = "none"     -> IF position[l] < Len(laneOperations(l)) THEN "check" ELSE "passEnd"

\* Faulty: the collector skips results that arrive after a cancellation.
DeliverUnlessCancelled(l) ==
  /\ collector = "range"
  /\ pc[l] = "send"
  /\ Goto(l, afterSend(l))
  /\ IF pending[l] = "none"
     THEN /\ measurement' = IF cancelled THEN measurement ELSE counted(measurement, current(l))
          /\ position' = [position EXCEPT ![l] = @ + 1]
          /\ UNCHANGED firstError
     ELSE /\ firstError' = IF firstError = "none" THEN pending[l] ELSE firstError
          /\ UNCHANGED <<measurement, position>>
  /\ UNCHANGED <<cycle, pending, waitVars, collector, contextVars, history>>

\* The rendezvous on the unbuffered channel: the lane's send completes and the
\* collector handles the result.
Deliver(l) ==
  /\ collector = "range"
  /\ pc[l] = "send"
  /\ Goto(l, afterSend(l))
  /\ IF pending[l] = "none"
     THEN /\ measurement' = counted(measurement, current(l))
          /\ position' = [position EXCEPT ![l] = @ + 1]
          /\ UNCHANGED firstError
     ELSE /\ firstError' = IF firstError = "none" THEN pending[l] ELSE firstError
          /\ UNCHANGED <<measurement, position>>
  /\ UNCHANGED <<cycle, pending, waitVars, collector, contextVars, history>>

\* The range ends on the closed channel; the deferred cancel() runs.
Return ==
  /\ collector = "range"
  /\ waiter = "closed"
  /\ collector' = "returned"
  /\ cancelled' = TRUE
  /\ UNCHANGED <<laneVars, waitVars, firstError, measurement, parentCancelled, timed, expired, history>>

-----------------------------------------------------------------------------
(* A lane *)

\* Faulty: the context is only looked at in the first pass.
CheckContextFirstPass(l) ==
  /\ pc[l] = "check"
  /\ IF cancelled /\ cycle[l] = 1
     THEN pending' = [pending EXCEPT ![l] = "canceled"] /\ Goto(l, "send")
     ELSE UNCHANGED pending /\ Goto(l, "deadline")
  /\ UNCHANGED <<position, cycle, waitVars, callVars, contextVars, history>>

CheckContext(l) ==
  /\ pc[l] = "check"
  /\ IF cancelled
     THEN pending' = [pending EXCEPT ![l] = "canceled"] /\ Goto(l, "send")
     ELSE UNCHANGED pending /\ Goto(l, "deadline")
  /\ UNCHANGED <<position, cycle, waitVars, callVars, contextVars, history>>

\* Faulty: no first full pass.
CheckDeadlineAlways(l) ==
  /\ pc[l] = "deadline"
  /\ Goto(l, IF timed /\ expired THEN "exit" ELSE "perform")
  /\ UNCHANGED <<position, cycle, pending, waitVars, callVars, contextVars, history>>

CheckDeadline(l) ==
  /\ pc[l] = "deadline"
  /\ Goto(l, IF cycle[l] > 1 /\ timed /\ expired THEN "exit" ELSE "perform")
  /\ UNCHANGED <<position, cycle, pending, waitVars, callVars, contextVars, history>>

\* Faulty: a lane cancels the others before it reports its error.
PerformCancelsFirst(l) ==
  /\ pc[l] = "perform"
  /\ Goto(l, "send")
  /\ late' = [late EXCEPT ![l] = IF cancelled THEN @ + 1 ELSE @]
  /\ \/ performed' = performed \cup {<<l, position[l]>>} /\ UNCHANGED <<pending, cancelled>>
     \/ pending' = [pending EXCEPT ![l] = "io"] /\ cancelled' = TRUE /\ UNCHANGED performed
  /\ UNCHANGED <<position, cycle, waitVars, callVars, parentCancelled, timed, expired>>

\* Faulty: a lane that fails under a cancelled context leaves without a report.
PerformMayLeave(l) ==
  /\ pc[l] = "perform"
  /\ late' = [late EXCEPT ![l] = IF cancelled THEN @ + 1 ELSE @]
  /\ \/ performed' = performed \cup {<<l, position[l]>>} /\ Goto(l, "send") /\ UNCHANGED pending
     \/ /\ pending' = [pending EXCEPT ![l] = "io"]
        /\ Goto(l, IF cancelled THEN "exit" ELSE "send")
        /\ UNCHANGED performed
  /\ UNCHANGED <<position, cycle, waitVars, callVars, contextVars>>

\* executeOperation: the write (with its sync) or the read succeeds or fails.
Perform(l) ==
  /\ pc[l] = "perform"
  /\ Goto(l, "send")
  /\ late' = [late EXCEPT ![l] = IF cancelled THEN @ + 1 ELSE @]
  /\ \/ performed' = performed \cup {<<l, position[l]>>} /\ UNCHANGED pending
     \/ pending' = [pending EXCEPT ![l] = "io"] /\ UNCHANGED performed
  /\ UNCHANGED <<position, cycle, waitVars, callVars, contextVars>>

\* Faulty: a failed lane leaves the others running.
CancelNobody(l) ==
  /\ pc[l] = "cancel"
  /\ Goto(l, "exit")
  /\ UNCHANGED <<position, cycle, pending, waitVars, callVars, contextVars, history>>

CancelOthers(l) ==
  /\ pc[l] = "cancel"
  /\ cancelled' = TRUE
  /\ Goto(l, "exit")
  /\ UNCHANGED <<position, cycle, pending, waitVars, callVars, parentCancelled, timed, expired, history>>

\* The bound MaxCycles holds a timed lane at the end of a pass until the
\* deadline passes or the context is cancelled; the pass after a
\* cancellation performs nothing.
EndPass(l) ==
  /\ pc[l] = "passEnd"
  /\ IF ~timed \/ expired
     THEN Goto(l, "exit") /\ UNCHANGED <<position, cycle>>
     ELSE /\ cycle[l] < MaxCycles \/ cancelled
          /\ position' = [position EXCEPT ![l] = 1]
          /\ cycle' = [cycle EXCEPT ![l] = @ + 1]
          /\ Goto(l, "check")
  /\ UNCHANGED <<pending, waitVars, callVars, contextVars, history>>

\* The deferred waitGroup.Done().
Exit(l) ==
  /\ pc[l] = "exit"
  /\ waitGroup' = waitGroup - 1
  /\ Goto(l, "done")
  /\ UNCHANGED <<position, cycle, pending, waiter, duration, callVars, contextVars, history>>

LaneStep(l) ==
  \/ CheckContext(l)
  \/ CheckDeadline(l)
  \/ Perform(l)
  \/ CancelOthers(l)
  \/ EndPass(l)
  \/ Exit(l)

-----------------------------------------------------------------------------
(* The waiter goroutine *)

MeasureDuration ==
  /\ waiter = "wait"
  /\ waitGroup = 0
  /\ duration' = "set"
  /\ waiter' = "close"
  /\ UNCHANGED <<laneVars, waitGroup, callVars, contextVars, history>>

CloseResults ==
  /\ waiter = "close"
  /\ waiter' = "closed"
  /\ UNCHANGED <<laneVars, waitGroup, duration, callVars, contextVars, history>>

-----------------------------------------------------------------------------
(* The context and the clock *)

\* The caller's context may be cancelled at any moment ...
CancelParent ==
  /\ ~parentCancelled
  /\ parentCancelled' = TRUE
  /\ UNCHANGED <<laneVars, waitVars, callVars, cancelled, timed, expired, history>>

\* ... and the context package hands it on to the derived context.
PropagateCancel ==
  /\ parentCancelled
  /\ ~cancelled
  /\ cancelled' = TRUE
  /\ UNCHANGED <<laneVars, waitVars, callVars, parentCancelled, timed, expired, history>>

DeadlinePasses ==
  /\ timed
  /\ ~expired
  /\ expired' = TRUE
  /\ UNCHANGED <<laneVars, waitVars, callVars, parentCancelled, cancelled, timed, history>>

-----------------------------------------------------------------------------
Caller == StartWaiter \/ Return \/ \E l \in Lane : Spawn(l)
Waiter == MeasureDuration \/ CloseResults
Environment == CancelParent \/ PropagateCancel \/ DeadlinePasses

\* The call is over once the collector has returned.
Terminated == collector = "returned" /\ UNCHANGED vars

Next ==
  \/ Caller
  \/ Waiter
  \/ Environment
  \/ \E l \in Lane : LaneStep(l) \/ Deliver(l)
  \/ Terminated

Spec == Init /\ [][Next]_vars

\* The Go scheduler runs every runnable goroutine, operations on the file
\* return and the context package propagates a cancellation.  Nothing is
\* assumed of the clock or of the caller's context.
FairSpec ==
  /\ Spec
  /\ WF_vars(Caller)
  /\ WF_vars(Waiter)
  /\ WF_vars(PropagateCancel)
  /\ \A l \in Lane : WF_vars(LaneStep(l)) /\ WF_vars(Deliver(l))

-----------------------------------------------------------------------------
(* Properties *)

\* The variables have their types; a position one past the end marks a
\* finished pass.
TypeOK ==
  /\ pc \in [Lane -> LaneStates]
  /\ position \in [Lane -> Nat \ {0}]
  /\ \A l \in Lane : position[l] \in 1..(Len(laneOperations(l)) + 1)
  /\ cycle \in [Lane -> 1..(MaxCycles + 1)]
  /\ pending \in [Lane -> Errors]
  /\ waitGroup \in Nat
  /\ waiter \in {"unborn", "wait", "close", "closed"}
  /\ duration \in {"unset", "set"}
  /\ collector \in {"spawning", "range", "returned"}
  /\ firstError \in Errors
  /\ measurement \in Measurement
  /\ parentCancelled \in BOOLEAN
  /\ cancelled \in BOOLEAN
  /\ timed \in BOOLEAN
  /\ expired \in BOOLEAN
  /\ performed \in SUBSET Slot
  /\ late \in [Lane -> Nat]

\* executeOperations reports context.Canceled only if its caller's context was
\* cancelled: the cancel() of a failing lane never replaces that lane's error
\* by a cancellation, which StartBenchmark would report as a cancelled run.
CancellationIsTheCallers ==
  collector = "returned" /\ firstError = "canceled" => parentCancelled

\* A failed operation of any lane makes the call fail.
FailureIsReported ==
  collector = "returned" /\ (\E l \in Lane : pending[l] = "io") => firstError # "none"

\* A call that succeeds has performed every operation of the plan, however
\* cancellation and deadline fall: the first pass of every lane is complete.
SuccessCoversPlan ==
  collector = "returned" /\ firstError = "none" => performed = Slot

laneBytes == [l \in Lane |-> SumFunction([i \in DOMAIN laneOperations(l) |-> laneOperations(l)[i].size])]
lanePasses == [l \in Lane |-> Len(laneOperations(l))]

\* The measurement of a successful call counts each operation of an untimed
\* plan exactly once, and a timed plan at least once; reads and writes add up.
SuccessCountsPlan ==
  collector = "returned" /\ firstError = "none" =>
    /\ measurement.Operations = measurement.Reads + measurement.Writes
    /\ IF timed
       THEN /\ measurement.Operations >= SumFunction(lanePasses)
            /\ measurement.Bytes >= SumFunction(laneBytes)
       ELSE /\ measurement.Operations = SumFunction(lanePasses)
            /\ measurement.Bytes = SumFunction(laneBytes)

\* After a cancellation a lane begins at most the one operation whose context
\* check it had already passed.
LateWorkIsBounded == \A l \in Lane : late[l] <= 1

\* The results channel is closed only after the last lane has left, so no
\* lane can send on a closed channel or outlive the call, and the duration
\* the collector reads has been measured.
ClosedAfterLastLane ==
  waiter \in {"close", "closed"} => duration = "set" /\ \A l \in Lane : pc[l] = "done"

\* The lanes, the channel and the derived context together implement the batch
\* of operations the workloads rely on.
Batch == INSTANCE OperationBatch WITH
  failed <- \E l \in Lane : pending[l] = "io",
  cancelRequested <- parentCancelled,
  outcome <- IF collector = "returned" THEN firstError ELSE "running"

ImplementsBatch == Batch!Spec

\* An untimed call, and a call whose deadline has passed, whose context is
\* cancelled or that has met an error, returns.
Terminates ==
  (~timed \/ expired \/ parentCancelled \/ firstError # "none") ~> (collector = "returned")
=============================================================================
