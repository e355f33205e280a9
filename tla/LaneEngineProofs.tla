-------------------------- MODULE LaneEngineProofs --------------------------
(***************************************************************************)
(* The safety of executeOperations for every plan, every number of workers *)
(* and every queue depth.  The properties of LaneEngine are not inductive: *)
(* they follow from Inductive, which says for each lane what its place in  *)
(* the code implies about its last result, about the collector's first     *)
(* error and about what it has performed, and ties the wait group to the   *)
(* lanes that have not left yet.                                           *)
(***************************************************************************)
EXTENDS LaneEngine, OperationsProofs, FiniteSetTheorems, WellFoundedInduction

Alive == {l \in Lane : pc[l] \notin {"unborn", "done"}}

\* The wait group counts the lanes that live, and the channel is closed, and
\* the call returns, only when none does.
WaitInv ==
  /\ waitGroup = Cardinality(Alive)
  /\ collector = "spawning" <=> waiter = "unborn"
  /\ waiter # "unborn" => \A l \in Lane : pc[l] # "unborn"
  /\ waiter \in {"close", "closed"} => duration = "set" /\ \A l \in Lane : pc[l] = "done"
  /\ collector = "returned" => waiter = "closed"

Reported == firstError # "none"

\* Until the call returns, the derived context is cancelled only by the caller
\* or after an error has been received; so is every cancellation a lane saw.
ErrorInv ==
  /\ cancelled /\ collector # "returned" => parentCancelled \/ Reported
  /\ firstError = "canceled" => parentCancelled
  /\ firstError = "io" => \E l \in Lane : pending[l] = "io"
  /\ \A l \in Lane :
       /\ pending[l] = "canceled" => parentCancelled \/ Reported
       /\ pending[l] # "none" /\ pc[l] \in {"cancel", "exit", "done"} => Reported
       /\ pending[l] # "none" => pc[l] \in {"send", "cancel", "exit", "done"}
       /\ pc[l] = "cancel" => pending[l] = "io"

\* Where a lane stands in its operations, and which it has performed.
LanePlan(l) ==
  /\ pc[l] \in {"unborn", "check", "deadline", "perform", "send", "cancel"} => position[l] <= Len(laneOperations(l))
  /\ pc[l] = "passEnd" => position[l] = Len(laneOperations(l)) + 1
  /\ \A i \in DOMAIN laneOperations(l) : cycle[l] > 1 \/ i < position[l] => <<l, i>> \in performed
  /\ pc[l] = "send" /\ pending[l] = "none" => <<l, position[l]>> \in performed
  /\ pc[l] \in {"exit", "done"} /\ pending[l] = "none" =>
       cycle[l] > 1 \/ position[l] = Len(laneOperations(l)) + 1

\* A lane in the pass beyond the bound, or one that began an operation under a
\* cancelled context, is on its way out.
LaneBound(l) ==
  /\ cycle[l] > MaxCycles =>
       /\ cancelled
       /\ pc[l] \in {"check", "send", "exit", "done"}
       /\ pc[l] = "send" => pending[l] = "canceled"
  /\ late[l] = 0 \/ (late[l] = 1 /\ cancelled /\ pc[l] \notin {"deadline", "perform"})

PlanInv == \A l \in Lane : LanePlan(l)
BoundInv == \A l \in Lane : LaneBound(l)

Inductive == TypeOK /\ WaitInv /\ ErrorInv /\ PlanInv /\ BoundInv
-----------------------------------------------------------------------------
\* There are finitely many lanes.
LEMMA LaneIsFinite == IsFiniteSet(Lane)
<1>1. IsFiniteSet((0..(Workers - 1)) \X (0..(QueueDepth - 1)))
  <2>1. IsFiniteSet(0..(Workers - 1)) /\ IsFiniteSet(0..(QueueDepth - 1))
    BY EngineAssumption, FS_Interval
  <2> QED
    BY <2>1, FS_Product
<1> QED
  BY <1>1, FS_Subset DEF Lane

\* Every lane has a non-empty sequence of operations.
LEMMA LaneHasOperations ==
  ASSUME NEW l \in Lane
  PROVE  /\ laneOperations(l) \in Seq(Operation)
         /\ Len(laneOperations(l)) \in Nat \ {0}
         /\ DOMAIN laneOperations(l) = 1..Len(laneOperations(l))
         /\ \A i \in 1..Len(laneOperations(l)) : laneOperations(l)[i] \in Operation /\ <<l, i>> \in Slot
<1>1. /\ l[1] \in 0..(Workers - 1)
      /\ l[2] \in 0..(QueueDepth - 1)
      /\ laneOperations(l) # << >>
  BY DEF Lane
<1>2. Plans[l[1]] \in Seq(Operation) /\ QueueDepth \in Nat \ {0}
  BY <1>1, EngineAssumption
<1>3. laneOperations(l) \in Seq(Operation)
  BY <1>1, <1>2, LaneIsDealtOperations DEF laneOperations
<1>4. /\ Len(laneOperations(l)) \in Nat \ {0}
      /\ DOMAIN laneOperations(l) = 1..Len(laneOperations(l))
  BY <1>1, <1>3
<1>5. ASSUME NEW i \in 1..Len(laneOperations(l))
      PROVE  laneOperations(l)[i] \in Operation /\ <<l, i>> \in Slot
  BY <1>3, <1>4 DEF Slot
<1> QED
  BY <1>3, <1>4, <1>5

\* Inductive holds initially.
LEMMA InductiveInit == Init => Inductive
<1> SUFFICES ASSUME Init PROVE Inductive
  OBVIOUS
<1> USE DEF Init
<1>1. TypeOK
  <2>1. \A l \in Lane : position[l] \in 1..(Len(laneOperations(l)) + 1)
    BY LaneHasOperations
  <2>2. 1 \in 1..(MaxCycles + 1)
    BY EngineAssumption
  <2>3. measurement \in Measurement
    BY DEF Measurement
  <2>4. pc \in [Lane -> LaneStates] /\ pending \in [Lane -> Errors] /\ firstError \in Errors
    BY DEF LaneStates, Errors
  <2>5. position \in [Lane -> Nat \ {0}] /\ late \in [Lane -> Nat]
    OBVIOUS
  <2>6. cycle \in [Lane -> 1..(MaxCycles + 1)]
    BY <2>2
  <2>7. cancelled \in BOOLEAN /\ parentCancelled \in BOOLEAN /\ timed \in BOOLEAN /\ expired \in BOOLEAN
    OBVIOUS
  <2> QED
    BY <2>1, <2>3, <2>4, <2>5, <2>6, <2>7 DEF TypeOK
<1>2. WaitInv
  <2>1. Alive = {}
    BY DEF Alive
  <2> QED
    BY <2>1, FS_EmptySet DEF WaitInv
<1>3. ErrorInv
  BY DEF ErrorInv
<1>4. PlanInv
  BY LaneHasOperations DEF PlanInv, LanePlan
<1>5. BoundInv
  BY EngineAssumption DEF BoundInv, LaneBound
<1> QED
  BY <1>1, <1>2, <1>3, <1>4, <1>5 DEF Inductive
-----------------------------------------------------------------------------
(* The inductive step, one lemma for each conjunct of Inductive and in it  *)
(* one step for each action.                                               *)

LEMMA AliveIsFinite == IsFiniteSet(Alive) /\ IsFiniteSet(Alive')
<1>1. Alive \subseteq Lane /\ Alive' \subseteq Lane
  BY DEF Alive
<1> QED
  BY <1>1, LaneIsFinite, FS_Subset

\* Every step keeps the types.
LEMMA TypeStep == Inductive /\ [Next]_vars => TypeOK'
<1> SUFFICES ASSUME Inductive, [Next]_vars PROVE TypeOK'
  OBVIOUS
<1>1. ASSUME NEW l \in Lane, Spawn(l)
      PROVE  TypeOK'
  BY <1>1 DEF Inductive, TypeOK, LaneStates, Spawn, Goto, callVars, contextVars, history
<1>2. CASE StartWaiter
  BY <1>2 DEF Inductive, TypeOK, StartWaiter, laneVars, contextVars, history
<1>3. ASSUME NEW l \in Lane, Deliver(l)
      PROVE  TypeOK'
  <2>1. position[l] \in 1..Len(laneOperations(l)) /\ pending[l] \in Errors
    <3>1. LanePlan(l)
      BY DEF Inductive, PlanInv
    <3> QED
      BY <1>3, <3>1, LaneHasOperations DEF Inductive, TypeOK, LanePlan, Deliver
  <2>2. measurement' \in Measurement
    <3>1. current(l).size \in Nat /\ current(l).write \in BOOLEAN
      BY <2>1, LaneHasOperations DEF current, Operation
    <3>2. /\ measurement.Bytes + current(l).size \in Nat
          /\ measurement.Operations + 1 \in Nat
          /\ measurement.Reads + (IF current(l).write THEN 0 ELSE 1) \in Nat
          /\ measurement.Writes + (IF current(l).write THEN 1 ELSE 0) \in Nat
      <4>1. measurement \in Measurement
        BY DEF Inductive, TypeOK
      <4> QED
        BY <3>1, <4>1 DEF Measurement
    <3>3. counted(measurement, current(l)) \in Measurement
      BY <3>2 DEF Measurement, counted
    <3> QED
      BY <1>3, <3>3 DEF Inductive, TypeOK, Deliver
  <2>3. /\ position' \in [Lane -> Nat \ {0}]
        /\ \A k \in Lane : position'[k] \in 1..(Len(laneOperations(k)) + 1)
    <3>1. \A k \in Lane : position'[k] = IF k = l /\ pending[l] = "none" THEN position[k] + 1 ELSE position[k]
      BY <1>3 DEF Inductive, TypeOK, Deliver
    <3>2. ASSUME NEW k \in Lane
          PROVE  /\ position'[k] \in Nat \ {0}
                 /\ position'[k] \in 1..(Len(laneOperations(k)) + 1)
      BY <2>1, <3>1, LaneHasOperations DEF Inductive, TypeOK
    <3>3. position' = [k \in Lane |-> position'[k]]
      BY <1>3 DEF Inductive, TypeOK, Deliver
    <3> QED
      BY <3>2, <3>3
  <2>4. pc' \in [Lane -> LaneStates] /\ firstError' \in Errors
    BY <1>3, <2>1 DEF Inductive, TypeOK, Deliver, Goto, afterSend, LaneStates, Errors
  <2> QED
    BY <1>3, <2>2, <2>3, <2>4 DEF Inductive, TypeOK, Deliver, waitVars, contextVars, history
<1>4. CASE Return
  BY <1>4 DEF Inductive, TypeOK, Return, laneVars, waitVars, history
<1>5. ASSUME NEW l \in Lane, CheckContext(l)
      PROVE  TypeOK'
  <2>1. pc' \in [Lane -> LaneStates] /\ pending' \in [Lane -> Errors]
    BY <1>5 DEF Inductive, TypeOK, LaneStates, Errors, CheckContext, Goto
  <2> QED
    BY <1>5, <2>1 DEF Inductive, TypeOK, CheckContext, waitVars, callVars, contextVars, history
<1>6. ASSUME NEW l \in Lane, CheckDeadline(l)
      PROVE  TypeOK'
  BY <1>6 DEF Inductive, TypeOK, LaneStates, CheckDeadline, Goto, waitVars, callVars, contextVars, history
<1>7. ASSUME NEW l \in Lane, Perform(l)
      PROVE  TypeOK'
  <2>1. <<l, position[l]>> \in Slot
    <3>1. LanePlan(l)
      BY DEF Inductive, PlanInv
    <3> QED
      BY <1>7, <3>1, LaneHasOperations DEF Inductive, TypeOK, LanePlan, Perform
  <2>2. performed' \in SUBSET Slot
    BY <1>7, <2>1 DEF Inductive, TypeOK, Perform
  <2>3. pc' \in [Lane -> LaneStates] /\ pending' \in [Lane -> Errors]
    BY <1>7 DEF Inductive, TypeOK, Perform, Goto, LaneStates, Errors
  <2>4. late' \in [Lane -> Nat]
    BY <1>7 DEF Inductive, TypeOK, Perform
  <2> QED
    BY <1>7, <2>2, <2>3, <2>4 DEF Inductive, TypeOK, Perform, waitVars, callVars, contextVars
<1>8. ASSUME NEW l \in Lane, CancelOthers(l)
      PROVE  TypeOK'
  BY <1>8 DEF Inductive, TypeOK, LaneStates, CancelOthers, Goto, waitVars, callVars, history
<1>9. ASSUME NEW l \in Lane, EndPass(l)
      PROVE  TypeOK'
  <2>1. cycle[l] + 1 \in 1..(MaxCycles + 1)
    <3>1. LaneBound(l)
      BY DEF Inductive, BoundInv
    <3>2. cycle[l] \in 1..(MaxCycles + 1)
      BY DEF Inductive, TypeOK
    <3> QED
      BY <1>9, <3>1, <3>2, EngineAssumption DEF Inductive, TypeOK, LaneBound, EndPass
  <2>2. cycle' \in [Lane -> 1..(MaxCycles + 1)]
    BY <1>9, <2>1 DEF Inductive, TypeOK, EndPass
  <2>3. /\ position' \in [Lane -> Nat \ {0}]
        /\ \A k \in Lane : position'[k] \in 1..(Len(laneOperations(k)) + 1)
    <3>1. \A k \in Lane : position'[k] \in {1, position[k]}
      BY <1>9 DEF Inductive, TypeOK, EndPass
    <3>2. position' \in [Lane -> Nat \ {0}]
      BY <1>9 DEF Inductive, TypeOK, EndPass
    <3>3. ASSUME NEW k \in Lane PROVE 1 \in 1..(Len(laneOperations(k)) + 1)
      BY LaneHasOperations
    <3> QED
      BY <3>1, <3>2, <3>3 DEF Inductive, TypeOK
  <2>4. pc' \in [Lane -> LaneStates]
    BY <1>9 DEF Inductive, TypeOK, EndPass, Goto, LaneStates
  <2> QED
    BY <1>9, <2>2, <2>3, <2>4 DEF Inductive, TypeOK, EndPass, waitVars, callVars, contextVars, history
<1>10. ASSUME NEW l \in Lane, Exit(l)
      PROVE  TypeOK'
  <2>1. waitGroup' \in Nat
    <3>1. Alive # {}
      BY <1>10 DEF Alive, Exit
    <3>2. Cardinality(Alive) \in Nat /\ Cardinality(Alive) # 0
      BY <3>1, AliveIsFinite, FS_CardinalityType, FS_EmptySet
    <3> QED
      BY <1>10, <3>2 DEF Inductive, TypeOK, WaitInv, Exit
  <2> QED
    BY <1>10, <2>1 DEF Inductive, TypeOK, Exit, Goto, LaneStates, callVars, contextVars, history
<1>11. CASE MeasureDuration
  BY <1>11 DEF Inductive, TypeOK, MeasureDuration, laneVars, callVars, contextVars, history
<1>12. CASE CloseResults
  BY <1>12 DEF Inductive, TypeOK, CloseResults, laneVars, callVars, contextVars, history
<1>13. CASE CancelParent
  BY <1>13 DEF Inductive, TypeOK, CancelParent, laneVars, waitVars, callVars, history
<1>14. CASE PropagateCancel
  BY <1>14 DEF Inductive, TypeOK, PropagateCancel, laneVars, waitVars, callVars, history
<1>15. CASE DeadlinePasses
  BY <1>15 DEF Inductive, TypeOK, DeadlinePasses, laneVars, waitVars, callVars, history
<1>16. CASE UNCHANGED vars
  BY <1>16 DEF Inductive, TypeOK, vars, laneVars, waitVars, callVars, contextVars, history
<1> QED
  BY <1>1, <1>2, <1>3, <1>4, <1>5, <1>6, <1>7, <1>8, <1>9, <1>10, <1>11, <1>12, <1>13, <1>14, <1>15, <1>16 DEF Next, Caller, Waiter, Environment, LaneStep, Terminated

\* Every step keeps WaitInv.
LEMMA WaitStep == Inductive /\ [Next]_vars => WaitInv'
<1> SUFFICES ASSUME Inductive, [Next]_vars PROVE WaitInv'
  OBVIOUS
<1>1. ASSUME NEW l \in Lane, Spawn(l)
      PROVE  WaitInv'
  <2>1. l \notin Alive /\ Alive' = Alive \cup {l}
    BY <1>1 DEF Inductive, TypeOK, Alive, Spawn, Goto
  <2>2. Cardinality(Alive') = Cardinality(Alive) + 1
    BY <2>1, AliveIsFinite, FS_AddElement
  <2> QED
    BY <1>1, <2>2 DEF Inductive, WaitInv, Spawn, callVars
<1>2. CASE StartWaiter
  <2>1. Alive' = Alive
    BY <1>2 DEF Alive, StartWaiter, laneVars
  <2> QED
    BY <1>2, <2>1 DEF Inductive, WaitInv, StartWaiter, laneVars
<1>3. ASSUME NEW l \in Lane, Deliver(l)
      PROVE  WaitInv'
  <2>1. Alive' = Alive
    <3>1. afterSend(l) \in {"cancel", "exit", "check", "passEnd"}
      BY DEF Inductive, TypeOK, Errors, afterSend
    <3> QED
      BY <1>3, <3>1 DEF Inductive, TypeOK, Alive, Deliver, Goto
  <2>2. pc[l] = "send" /\ \A k \in Lane : k # l => pc'[k] = pc[k]
    BY <1>3 DEF Inductive, TypeOK, Deliver, Goto
  <2>3. \A k \in Lane : pc'[k] # "unborn"
    <3>1. pc'[l] # "unborn"
      BY <1>3 DEF Inductive, TypeOK, Errors, Deliver, afterSend, Goto
    <3>2. \A k \in Lane : pc[k] # "unborn"
      BY <1>3 DEF Inductive, TypeOK, WaitInv, Deliver
    <3> QED
      BY <2>2, <3>1, <3>2
  <2> QED
    BY <1>3, <2>1, <2>2, <2>3 DEF Inductive, TypeOK, WaitInv, Deliver, waitVars
<1>4. CASE Return
  <2>1. Alive' = Alive
    BY <1>4 DEF Alive, Return, laneVars
  <2> QED
    BY <1>4, <2>1 DEF Inductive, WaitInv, Return, laneVars, waitVars
<1>5. ASSUME NEW l \in Lane, CheckContext(l)
      PROVE  WaitInv'
  <2>1. Alive' = Alive
    BY <1>5 DEF Inductive, TypeOK, Alive, CheckContext, Goto
  <2> QED
    BY <1>5, <2>1 DEF Inductive, TypeOK, WaitInv, CheckContext, Goto, waitVars, callVars
<1>6. ASSUME NEW l \in Lane, CheckDeadline(l)
      PROVE  WaitInv'
  <2>1. Alive' = Alive
    BY <1>6 DEF Inductive, TypeOK, Alive, CheckDeadline, Goto
  <2> QED
    BY <1>6, <2>1 DEF Inductive, TypeOK, WaitInv, CheckDeadline, Goto, waitVars, callVars
<1>7. ASSUME NEW l \in Lane, Perform(l)
      PROVE  WaitInv'
  <2>1. Alive' = Alive
    BY <1>7 DEF Inductive, TypeOK, Alive, Perform, Goto
  <2> QED
    BY <1>7, <2>1 DEF Inductive, TypeOK, WaitInv, Perform, Goto, waitVars, callVars
<1>8. ASSUME NEW l \in Lane, CancelOthers(l)
      PROVE  WaitInv'
  <2>1. Alive' = Alive
    BY <1>8 DEF Inductive, TypeOK, Alive, CancelOthers, Goto
  <2> QED
    BY <1>8, <2>1 DEF Inductive, TypeOK, WaitInv, CancelOthers, Goto, waitVars, callVars
<1>9. ASSUME NEW l \in Lane, EndPass(l)
      PROVE  WaitInv'
  <2>1. Alive' = Alive
    BY <1>9 DEF Inductive, TypeOK, Alive, EndPass, Goto
  <2> QED
    BY <1>9, <2>1 DEF Inductive, TypeOK, WaitInv, EndPass, Goto, waitVars, callVars
<1>10. ASSUME NEW l \in Lane, Exit(l)
      PROVE  WaitInv'
  <2>1. l \in Alive /\ Alive' = Alive \ {l}
    BY <1>10 DEF Inductive, TypeOK, Alive, Exit, Goto
  <2>2. Cardinality(Alive') = Cardinality(Alive) - 1
    BY <2>1, AliveIsFinite, FS_RemoveElement
  <2> QED
    BY <1>10, <2>2 DEF Inductive, TypeOK, WaitInv, Exit, Goto, callVars
<1>11. CASE MeasureDuration
  <2>1. Alive = {}
    BY <1>11, AliveIsFinite, FS_EmptySet DEF Inductive, WaitInv, MeasureDuration
  <2>2. \A l \in Lane : pc[l] = "done"
    BY <1>11, <2>1 DEF Inductive, WaitInv, Alive, MeasureDuration
  <2>3. Alive' = Alive
    BY <1>11 DEF Alive, MeasureDuration, laneVars
  <2> QED
    BY <1>11, <2>2, <2>3 DEF Inductive, WaitInv, MeasureDuration, laneVars, callVars
<1>12. CASE CloseResults
  <2>1. Alive' = Alive
    BY <1>12 DEF Alive, CloseResults, laneVars
  <2> QED
    BY <1>12, <2>1 DEF Inductive, WaitInv, CloseResults, laneVars, callVars
<1>13. CASE CancelParent
  <2>1. Alive' = Alive
    BY <1>13 DEF Alive, CancelParent, laneVars
  <2> QED
    BY <1>13, <2>1 DEF Inductive, WaitInv, CancelParent, laneVars, waitVars, callVars
<1>14. CASE PropagateCancel
  <2>1. Alive' = Alive
    BY <1>14 DEF Alive, PropagateCancel, laneVars
  <2> QED
    BY <1>14, <2>1 DEF Inductive, WaitInv, PropagateCancel, laneVars, waitVars, callVars
<1>15. CASE DeadlinePasses
  <2>1. Alive' = Alive
    BY <1>15 DEF Alive, DeadlinePasses, laneVars
  <2> QED
    BY <1>15, <2>1 DEF Inductive, WaitInv, DeadlinePasses, laneVars, waitVars, callVars
<1>16. CASE UNCHANGED vars
  <2>1. Alive' = Alive
    BY <1>16 DEF Alive, vars, laneVars
  <2> QED
    BY <1>16, <2>1 DEF Inductive, WaitInv, vars, laneVars, waitVars, callVars
<1> QED
  BY <1>1, <1>2, <1>3, <1>4, <1>5, <1>6, <1>7, <1>8, <1>9, <1>10, <1>11, <1>12, <1>13, <1>14, <1>15, <1>16 DEF Next, Caller, Waiter, Environment, LaneStep, Terminated

\* Every step keeps ErrorInv.
LEMMA ErrorStep == Inductive /\ [Next]_vars => ErrorInv'
<1> SUFFICES ASSUME Inductive, [Next]_vars PROVE ErrorInv'
  OBVIOUS
<1>1. ASSUME NEW l \in Lane, Spawn(l)
      PROVE  ErrorInv'
  BY <1>1 DEF Inductive, TypeOK, ErrorInv, Reported, Spawn, Goto, callVars, contextVars
<1>2. CASE StartWaiter
  BY <1>2 DEF Inductive, ErrorInv, Reported, StartWaiter, laneVars, contextVars
<1>3. ASSUME NEW l \in Lane, Deliver(l)
      PROVE  ErrorInv'
  BY <1>3 DEF Inductive, TypeOK, ErrorInv, Reported, Errors, afterSend, Deliver, Goto, contextVars
<1>4. CASE Return
  BY <1>4 DEF Inductive, ErrorInv, Reported, Return, laneVars
<1>5. ASSUME NEW l \in Lane, CheckContext(l)
      PROVE  ErrorInv'
  <2>1. collector # "returned"
    BY <1>5 DEF Inductive, WaitInv, CheckContext
  <2>2. \A k \in Lane : pc'[k] = IF k = l THEN (IF cancelled THEN "send" ELSE "deadline") ELSE pc[k]
    BY <1>5 DEF Inductive, TypeOK, CheckContext, Goto
  <2>3. \A k \in Lane : pending'[k] = IF k = l /\ cancelled THEN "canceled" ELSE pending[k]
    BY <1>5 DEF Inductive, TypeOK, CheckContext
  <2>4. UNCHANGED <<collector, firstError, parentCancelled, cancelled>> /\ pc[l] = "check"
    BY <1>5 DEF CheckContext, callVars, contextVars
  <2> QED
    BY <2>1, <2>2, <2>3, <2>4 DEF Inductive, ErrorInv, Reported
<1>6. ASSUME NEW l \in Lane, CheckDeadline(l)
      PROVE  ErrorInv'
  BY <1>6 DEF Inductive, TypeOK, ErrorInv, Reported, CheckDeadline, Goto, callVars, contextVars
<1>7. ASSUME NEW l \in Lane, Perform(l)
      PROVE  ErrorInv'
  BY <1>7 DEF Inductive, TypeOK, ErrorInv, Reported, Perform, Goto, callVars, contextVars
<1>8. ASSUME NEW l \in Lane, CancelOthers(l)
      PROVE  ErrorInv'
  BY <1>8 DEF Inductive, TypeOK, ErrorInv, Reported, CancelOthers, Goto, callVars
<1>9. ASSUME NEW l \in Lane, EndPass(l)
      PROVE  ErrorInv'
  BY <1>9 DEF Inductive, TypeOK, ErrorInv, Reported, EndPass, Goto, callVars, contextVars
<1>10. ASSUME NEW l \in Lane, Exit(l)
      PROVE  ErrorInv'
  BY <1>10 DEF Inductive, TypeOK, ErrorInv, Reported, Exit, Goto, callVars, contextVars
<1>11. CASE MeasureDuration
  BY <1>11 DEF Inductive, ErrorInv, Reported, MeasureDuration, laneVars, callVars, contextVars
<1>12. CASE CloseResults
  BY <1>12 DEF Inductive, ErrorInv, Reported, CloseResults, laneVars, callVars, contextVars
<1>13. CASE CancelParent
  BY <1>13 DEF Inductive, ErrorInv, Reported, CancelParent, laneVars, callVars
<1>14. CASE PropagateCancel
  BY <1>14 DEF Inductive, ErrorInv, Reported, PropagateCancel, laneVars, callVars
<1>15. CASE DeadlinePasses
  BY <1>15 DEF Inductive, ErrorInv, Reported, DeadlinePasses, laneVars, callVars
<1>16. CASE UNCHANGED vars
  BY <1>16 DEF Inductive, ErrorInv, Reported, vars, laneVars, callVars, contextVars
<1> QED
  BY <1>1, <1>2, <1>3, <1>4, <1>5, <1>6, <1>7, <1>8, <1>9, <1>10, <1>11, <1>12, <1>13, <1>14, <1>15, <1>16 DEF Next, Caller, Waiter, Environment, LaneStep, Terminated

\* Every step keeps PlanInv.
LEMMA PlanStep == Inductive /\ [Next]_vars => PlanInv'
<1> SUFFICES ASSUME Inductive, [Next]_vars PROVE PlanInv'
  OBVIOUS
<1>1. ASSUME NEW l \in Lane, Spawn(l)
      PROVE  PlanInv'
  <2> SUFFICES ASSUME NEW k \in Lane PROVE LanePlan(k)'
    BY DEF PlanInv
  <2>1. LanePlan(k)
    BY DEF Inductive, PlanInv
  <2>2. CASE k # l
    BY <1>1, <2>1, LaneHasOperations, <2>2 DEF Inductive, TypeOK, LanePlan, Spawn, Goto, history
  <2>3. CASE k = l
    BY <1>1, <2>1, LaneHasOperations, <2>3 DEF Inductive, TypeOK, LanePlan, Spawn, Goto, history
  <2> QED
    BY <2>2, <2>3
<1>2. CASE StartWaiter
  BY <1>2 DEF Inductive, PlanInv, LanePlan, StartWaiter, laneVars, history
<1>3. ASSUME NEW l \in Lane, Deliver(l)
      PROVE  PlanInv'
  <2> SUFFICES ASSUME NEW k \in Lane PROVE LanePlan(k)'
    BY DEF PlanInv
  <2>1. LanePlan(k)
    BY DEF Inductive, PlanInv
  <2>2. CASE k # l
    BY <1>3, <2>1, LaneHasOperations, <2>2 DEF Inductive, TypeOK, LanePlan, Deliver, Goto, history
  <2>3. CASE k = l
    <3> DEFINE n == Len(laneOperations(l))
    <3>1. /\ position[l] \in Nat \ {0} /\ position[l] <= n
          /\ n \in Nat /\ DOMAIN laneOperations(l) = 1..n
          /\ pending[l] \in Errors
      BY <1>3, <2>1, <2>3, LaneHasOperations DEF Inductive, TypeOK, LanePlan, Deliver
    <3>2. cycle' = cycle /\ pending' = pending /\ performed' = performed /\ pc'[l] = afterSend(l)
      BY <1>3 DEF Inductive, TypeOK, Deliver, Goto, history
    <3>3. CASE pending[l] = "none"
      <4>1. position'[l] = position[l] + 1
        BY <1>3, <3>3 DEF Inductive, TypeOK, Deliver
      <4>2. pc'[l] = IF position[l] < n THEN "check" ELSE "passEnd"
        BY <3>2, <3>3 DEF afterSend
      <4>3. <<l, position[l]>> \in performed
        BY <1>3, <2>1, <2>3, <3>3 DEF Inductive, TypeOK, LanePlan, Deliver
      <4>4. ASSUME NEW i \in 1..n, cycle[l] > 1 \/ i < position[l] + 1
            PROVE  <<l, i>> \in performed
        BY <2>1, <2>3, <3>1, <4>3, <4>4 DEF LanePlan
      <4> QED
        BY <2>3, <3>1, <3>2, <4>1, <4>2, <4>4 DEF LanePlan
    <3>4. CASE pending[l] # "none"
      <4>1. position' = position /\ pc'[l] \in {"cancel", "exit"}
        BY <1>3, <3>1, <3>2, <3>4 DEF Inductive, TypeOK, Deliver, Errors, afterSend
      <4> QED
        BY <2>1, <2>3, <3>1, <3>2, <3>4, <4>1 DEF LanePlan
    <3> QED
      BY <3>3, <3>4
  <2> QED
    BY <2>2, <2>3
<1>4. CASE Return
  BY <1>4 DEF Inductive, PlanInv, LanePlan, Return, laneVars, history
<1>5. ASSUME NEW l \in Lane, CheckContext(l)
      PROVE  PlanInv'
  <2> SUFFICES ASSUME NEW k \in Lane PROVE LanePlan(k)'
    BY DEF PlanInv
  <2>1. LanePlan(k)
    BY DEF Inductive, PlanInv
  <2>2. CASE k # l
    BY <1>5, <2>1, LaneHasOperations, <2>2 DEF Inductive, TypeOK, LanePlan, CheckContext, Goto, history
  <2>3. CASE k = l
    BY <1>5, <2>1, LaneHasOperations, <2>3 DEF Inductive, TypeOK, LanePlan, CheckContext, Goto, history
  <2> QED
    BY <2>2, <2>3
<1>6. ASSUME NEW l \in Lane, CheckDeadline(l)
      PROVE  PlanInv'
  <2> SUFFICES ASSUME NEW k \in Lane PROVE LanePlan(k)'
    BY DEF PlanInv
  <2>1. LanePlan(k)
    BY DEF Inductive, PlanInv
  <2>2. CASE k # l
    BY <1>6, <2>1, LaneHasOperations, <2>2 DEF Inductive, TypeOK, LanePlan, CheckDeadline, Goto, history
  <2>3. CASE k = l
    BY <1>6, <2>1, LaneHasOperations, <2>3 DEF Inductive, TypeOK, LanePlan, CheckDeadline, Goto, history
  <2> QED
    BY <2>2, <2>3
<1>7. ASSUME NEW l \in Lane, Perform(l)
      PROVE  PlanInv'
  <2> SUFFICES ASSUME NEW k \in Lane PROVE LanePlan(k)'
    BY DEF PlanInv
  <2>1. LanePlan(k)
    BY DEF Inductive, PlanInv
  <2>2. CASE k # l
    BY <1>7, <2>1, LaneHasOperations, <2>2 DEF Inductive, TypeOK, LanePlan, Perform, Goto
  <2>3. CASE k = l
    BY <1>7, <2>1, LaneHasOperations, <2>3 DEF Inductive, TypeOK, LanePlan, Perform, Goto
  <2> QED
    BY <2>2, <2>3
<1>8. ASSUME NEW l \in Lane, CancelOthers(l)
      PROVE  PlanInv'
  <2> SUFFICES ASSUME NEW k \in Lane PROVE LanePlan(k)'
    BY DEF PlanInv
  <2>1. LanePlan(k)
    BY DEF Inductive, PlanInv
  <2>2. CASE k # l
    BY <1>8, <2>1, LaneHasOperations, <2>2 DEF Inductive, TypeOK, LanePlan, CancelOthers, Goto, history
  <2>3. CASE k = l
    BY <1>8, <2>1, LaneHasOperations, <2>3 DEF Inductive, TypeOK, ErrorInv, LanePlan, CancelOthers, Goto, history
  <2> QED
    BY <2>2, <2>3
<1>9. ASSUME NEW l \in Lane, EndPass(l)
      PROVE  PlanInv'
  <2> SUFFICES ASSUME NEW k \in Lane PROVE LanePlan(k)'
    BY DEF PlanInv
  <2>1. LanePlan(k)
    BY DEF Inductive, PlanInv
  <2>2. CASE k # l
    BY <1>9, <2>1, LaneHasOperations, <2>2 DEF Inductive, TypeOK, LanePlan, EndPass, Goto, history
  <2>3. CASE k = l
    BY <1>9, <2>1, LaneHasOperations, <2>3 DEF Inductive, TypeOK, LanePlan, EndPass, Goto, history
  <2> QED
    BY <2>2, <2>3
<1>10. ASSUME NEW l \in Lane, Exit(l)
      PROVE  PlanInv'
  <2> SUFFICES ASSUME NEW k \in Lane PROVE LanePlan(k)'
    BY DEF PlanInv
  <2>1. LanePlan(k)
    BY DEF Inductive, PlanInv
  <2>2. CASE k # l
    BY <1>10, <2>1, LaneHasOperations, <2>2 DEF Inductive, TypeOK, LanePlan, Exit, Goto, history
  <2>3. CASE k = l
    BY <1>10, <2>1, LaneHasOperations, <2>3 DEF Inductive, TypeOK, LanePlan, Exit, Goto, history
  <2> QED
    BY <2>2, <2>3
<1>11. CASE MeasureDuration
  BY <1>11 DEF Inductive, PlanInv, LanePlan, MeasureDuration, laneVars, history
<1>12. CASE CloseResults
  BY <1>12 DEF Inductive, PlanInv, LanePlan, CloseResults, laneVars, history
<1>13. CASE CancelParent
  BY <1>13 DEF Inductive, PlanInv, LanePlan, CancelParent, laneVars, history
<1>14. CASE PropagateCancel
  BY <1>14 DEF Inductive, PlanInv, LanePlan, PropagateCancel, laneVars, history
<1>15. CASE DeadlinePasses
  BY <1>15 DEF Inductive, PlanInv, LanePlan, DeadlinePasses, laneVars, history
<1>16. CASE UNCHANGED vars
  BY <1>16 DEF Inductive, PlanInv, LanePlan, vars, laneVars, history
<1> QED
  BY <1>1, <1>2, <1>3, <1>4, <1>5, <1>6, <1>7, <1>8, <1>9, <1>10, <1>11, <1>12, <1>13, <1>14, <1>15, <1>16 DEF Next, Caller, Waiter, Environment, LaneStep, Terminated

\* Every step keeps BoundInv.
LEMMA BoundStep == Inductive /\ [Next]_vars => BoundInv'
<1> SUFFICES ASSUME Inductive, [Next]_vars PROVE BoundInv'
  OBVIOUS
<1>1. ASSUME NEW l \in Lane, Spawn(l)
      PROVE  BoundInv'
  <2> SUFFICES ASSUME NEW k \in Lane PROVE LaneBound(k)'
    BY DEF BoundInv
  <2>1. LaneBound(k)
    BY DEF Inductive, BoundInv
  <2>2. CASE k # l
    BY <1>1, <2>1, EngineAssumption, <2>2 DEF Inductive, TypeOK, LaneBound, Spawn, Goto, contextVars, history
  <2>3. CASE k = l
    BY <1>1, <2>1, EngineAssumption, <2>3 DEF Inductive, TypeOK, LaneBound, Spawn, Goto, contextVars, history
  <2> QED
    BY <2>2, <2>3
<1>2. CASE StartWaiter
  BY <1>2 DEF Inductive, BoundInv, LaneBound, StartWaiter, laneVars, contextVars, history
<1>3. ASSUME NEW l \in Lane, Deliver(l)
      PROVE  BoundInv'
  <2> SUFFICES ASSUME NEW k \in Lane PROVE LaneBound(k)'
    BY DEF BoundInv
  <2>1. LaneBound(k)
    BY DEF Inductive, BoundInv
  <2>2. CASE k # l
    BY <1>3, <2>1, EngineAssumption, <2>2 DEF Inductive, TypeOK, LaneBound, Deliver, Goto, contextVars, history
  <2>3. CASE k = l
    BY <1>3, <2>1, EngineAssumption, <2>3 DEF Inductive, TypeOK, LaneBound, Errors, Deliver, afterSend, Goto, contextVars, history
  <2> QED
    BY <2>2, <2>3
<1>4. CASE Return
  BY <1>4 DEF Inductive, BoundInv, LaneBound, Return, laneVars, history
<1>5. ASSUME NEW l \in Lane, CheckContext(l)
      PROVE  BoundInv'
  <2> SUFFICES ASSUME NEW k \in Lane PROVE LaneBound(k)'
    BY DEF BoundInv
  <2>1. LaneBound(k)
    BY DEF Inductive, BoundInv
  <2>2. CASE k # l
    BY <1>5, <2>1, EngineAssumption, <2>2 DEF Inductive, TypeOK, LaneBound, CheckContext, Goto, contextVars, history
  <2>3. CASE k = l
    BY <1>5, <2>1, EngineAssumption, <2>3 DEF Inductive, TypeOK, LaneBound, CheckContext, Goto, contextVars, history
  <2> QED
    BY <2>2, <2>3
<1>6. ASSUME NEW l \in Lane, CheckDeadline(l)
      PROVE  BoundInv'
  <2> SUFFICES ASSUME NEW k \in Lane PROVE LaneBound(k)'
    BY DEF BoundInv
  <2>1. LaneBound(k)
    BY DEF Inductive, BoundInv
  <2>2. CASE k # l
    BY <1>6, <2>1, EngineAssumption, <2>2 DEF Inductive, TypeOK, LaneBound, CheckDeadline, Goto, contextVars, history
  <2>3. CASE k = l
    BY <1>6, <2>1, EngineAssumption, <2>3 DEF Inductive, TypeOK, LaneBound, CheckDeadline, history
  <2> QED
    BY <2>2, <2>3
<1>7. ASSUME NEW l \in Lane, Perform(l)
      PROVE  BoundInv'
  <2> SUFFICES ASSUME NEW k \in Lane PROVE LaneBound(k)'
    BY DEF BoundInv
  <2>1. LaneBound(k)
    BY DEF Inductive, BoundInv
  <2>2. CASE k # l
    BY <1>7, <2>1, EngineAssumption, <2>2 DEF Inductive, TypeOK, LaneBound, Perform, Goto, contextVars
  <2>3. CASE k = l
    BY <1>7, <2>1, EngineAssumption, <2>3 DEF Inductive, TypeOK, LaneBound, Perform, Goto, contextVars
  <2> QED
    BY <2>2, <2>3
<1>8. ASSUME NEW l \in Lane, CancelOthers(l)
      PROVE  BoundInv'
  <2> SUFFICES ASSUME NEW k \in Lane PROVE LaneBound(k)'
    BY DEF BoundInv
  <2>1. LaneBound(k)
    BY DEF Inductive, BoundInv
  <2>2. CASE k # l
    BY <1>8, <2>1, EngineAssumption, <2>2 DEF Inductive, TypeOK, LaneBound, CancelOthers, Goto, history
  <2>3. CASE k = l
    BY <1>8, <2>1, EngineAssumption, <2>3 DEF Inductive, TypeOK, LaneBound, CancelOthers, Goto, history
  <2> QED
    BY <2>2, <2>3
<1>9. ASSUME NEW l \in Lane, EndPass(l)
      PROVE  BoundInv'
  <2> SUFFICES ASSUME NEW k \in Lane PROVE LaneBound(k)'
    BY DEF BoundInv
  <2>1. LaneBound(k)
    BY DEF Inductive, BoundInv
  <2>2. CASE k # l
    BY <1>9, <2>1, EngineAssumption, <2>2 DEF Inductive, TypeOK, LaneBound, EndPass, Goto, contextVars, history
  <2>3. CASE k = l
    BY <1>9, <2>1, EngineAssumption, <2>3 DEF Inductive, TypeOK, LaneBound, EndPass, Goto, contextVars, history
  <2> QED
    BY <2>2, <2>3
<1>10. ASSUME NEW l \in Lane, Exit(l)
      PROVE  BoundInv'
  <2> SUFFICES ASSUME NEW k \in Lane PROVE LaneBound(k)'
    BY DEF BoundInv
  <2>1. LaneBound(k)
    BY DEF Inductive, BoundInv
  <2>2. CASE k # l
    BY <1>10, <2>1, EngineAssumption, <2>2 DEF Inductive, TypeOK, LaneBound, Exit, Goto, contextVars, history
  <2>3. CASE k = l
    BY <1>10, <2>1, EngineAssumption, <2>3 DEF Inductive, TypeOK, LaneBound, Exit, Goto, contextVars, history
  <2> QED
    BY <2>2, <2>3
<1>11. CASE MeasureDuration
  BY <1>11 DEF Inductive, BoundInv, LaneBound, MeasureDuration, laneVars, contextVars, history
<1>12. CASE CloseResults
  BY <1>12 DEF Inductive, BoundInv, LaneBound, CloseResults, laneVars, contextVars, history
<1>13. CASE CancelParent
  BY <1>13 DEF Inductive, BoundInv, LaneBound, CancelParent, laneVars, history
<1>14. CASE PropagateCancel
  BY <1>14 DEF Inductive, BoundInv, LaneBound, PropagateCancel, laneVars, history
<1>15. CASE DeadlinePasses
  BY <1>15 DEF Inductive, BoundInv, LaneBound, DeadlinePasses, laneVars, history
<1>16. CASE UNCHANGED vars
  BY <1>16 DEF Inductive, BoundInv, LaneBound, vars, laneVars, contextVars, history
<1> QED
  BY <1>1, <1>2, <1>3, <1>4, <1>5, <1>6, <1>7, <1>8, <1>9, <1>10, <1>11, <1>12, <1>13, <1>14, <1>15, <1>16 DEF Next, Caller, Waiter, Environment, LaneStep, Terminated

\* Inductive is an invariant of every execution.
THEOREM InductiveInvariant == Spec => []Inductive
<1>1. Init => Inductive
  BY InductiveInit
<1>2. Inductive /\ [Next]_vars => Inductive'
  BY TypeStep, WaitStep, ErrorStep, PlanStep, BoundStep DEF Inductive
<1> QED
  BY <1>1, <1>2, PTL DEF Spec

-----------------------------------------------------------------------------
(* What follows for the callers of executeOperations *)

Failed == \E l \in Lane : pending[l] = "io"

\* Once the channel is closed without an error received, every lane has made
\* its full first pass.
LEMMA ClosedWithoutError ==
  ASSUME Inductive, waiter = "closed", firstError = "none"
  PROVE  performed = Slot /\ ~Failed
<1>1. ASSUME NEW l \in Lane
      PROVE  pc[l] = "done" /\ pending[l] = "none" /\ LanePlan(l)
  BY DEF Inductive, WaitInv, ErrorInv, Reported, PlanInv
<1>2. ASSUME NEW l \in Lane, NEW i \in DOMAIN laneOperations(l)
      PROVE  <<l, i>> \in performed
  <2>1. cycle[l] > 1 \/ position[l] = Len(laneOperations(l)) + 1
    BY <1>1 DEF LanePlan
  <2>2. cycle[l] > 1 \/ i < position[l]
    BY <2>1, LaneHasOperations
  <2> QED
    BY <1>1, <2>2 DEF LanePlan
<1>3. Slot \subseteq performed
  BY <1>2 DEF Slot
<1> QED
  BY <1>1, <1>3 DEF Failed, Inductive, TypeOK

\* The variables of the engine keep their types.
THEOREM TypeCorrect == Spec => []TypeOK
<1>1. Inductive => TypeOK
  BY DEF Inductive
<1> QED
  BY <1>1, InductiveInvariant, PTL

\* A cancellation reported by the call is its caller's.
THEOREM CallerCancels == Spec => []CancellationIsTheCallers
<1>1. Inductive => CancellationIsTheCallers
  BY DEF Inductive, ErrorInv, CancellationIsTheCallers
<1> QED
  BY <1>1, InductiveInvariant, PTL

\* No lane outlives the results channel.
THEOREM ChannelOutlivesLanes == Spec => []ClosedAfterLastLane
<1>1. Inductive => ClosedAfterLastLane
  BY DEF Inductive, WaitInv, ClosedAfterLastLane
<1> QED
  BY <1>1, InductiveInvariant, PTL

\* The failure of an operation is never lost.
THEOREM FailureIsKept == Spec => []FailureIsReported
<1>1. Inductive => FailureIsReported
  BY DEF Inductive, WaitInv, ErrorInv, Reported, FailureIsReported
<1> QED
  BY <1>1, InductiveInvariant, PTL

\* A successful call has performed its whole plan.
THEOREM PlanIsPerformed == Spec => []SuccessCoversPlan
<1>1. Inductive => SuccessCoversPlan
  BY ClosedWithoutError DEF Inductive, WaitInv, SuccessCoversPlan
<1> QED
  BY <1>1, InductiveInvariant, PTL

\* After a cancellation a lane begins at most one operation.
THEOREM LateWork == Spec => []LateWorkIsBounded
<1>1. Inductive => LateWorkIsBounded
  BY DEF Inductive, BoundInv, LaneBound, LateWorkIsBounded
<1> QED
  BY <1>1, InductiveInvariant, PTL

-----------------------------------------------------------------------------
(* Refinement: the engine is a batch of operations *)

\* A step that changes nothing the batch shows, in the terms of the batch.
LEMMA BatchStutters ==
  ASSUME performed' = performed, Failed' = Failed,
         parentCancelled' = parentCancelled, collector' = collector,
         collector = "returned" => firstError' = firstError
  PROVE  UNCHANGED Batch!vars
BY DEF Batch!vars, Failed

\* Every step of the engine is a step of the batch or changes nothing it shows.
LEMMA BatchStep == Inductive /\ [Next]_vars => [Batch!Next]_(Batch!vars)
<1> SUFFICES ASSUME Inductive, [Next]_vars PROVE [Batch!Next]_(Batch!vars)
  OBVIOUS
<1> USE DEF Failed
<1>1. ASSUME NEW l \in Lane, Spawn(l)
      PROVE  UNCHANGED Batch!vars
  BY <1>1, BatchStutters DEF Spawn, callVars, contextVars, history
<1>2. ASSUME NEW l \in Lane, CheckDeadline(l)
      PROVE  UNCHANGED Batch!vars
  BY <1>2, BatchStutters DEF CheckDeadline, callVars, contextVars, history
<1>3. ASSUME NEW l \in Lane, CancelOthers(l)
      PROVE  UNCHANGED Batch!vars
  BY <1>3, BatchStutters DEF CancelOthers, callVars, history
<1>4. ASSUME NEW l \in Lane, EndPass(l)
      PROVE  UNCHANGED Batch!vars
  BY <1>4, BatchStutters DEF EndPass, callVars, contextVars, history
<1>5. ASSUME NEW l \in Lane, Exit(l)
      PROVE  UNCHANGED Batch!vars
  BY <1>5, BatchStutters DEF Exit, callVars, contextVars, history
<1>6. ASSUME NEW l \in Lane, Deliver(l)
      PROVE  UNCHANGED Batch!vars
  BY <1>6, BatchStutters DEF Deliver, contextVars, history
<1>7. ASSUME NEW l \in Lane, CheckContext(l)
      PROVE  UNCHANGED Batch!vars
  <2>1. pending[l] = "none"
    BY <1>7 DEF Inductive, ErrorInv, CheckContext
  <2>2. Failed' = Failed
    BY <1>7, <2>1 DEF Inductive, TypeOK, CheckContext
  <2> QED
    BY <1>7, <2>2, BatchStutters DEF CheckContext, callVars, contextVars, history
<1>8. ASSUME NEW l \in Lane, Perform(l)
      PROVE  [Batch!Next]_(Batch!vars)
  <2>1. pending[l] = "none" /\ collector # "returned" /\ <<l, position[l]>> \in Slot
    <3>1. LanePlan(l)
      BY DEF Inductive, PlanInv
    <3> QED
      BY <1>8, <3>1, LaneHasOperations DEF Inductive, TypeOK, WaitInv, ErrorInv, LanePlan, Perform
  <2>2. CASE performed' = performed \cup {<<l, position[l]>>} /\ UNCHANGED pending
    <3>1. Batch!Succeed(<<l, position[l]>>)
      BY <1>8, <2>1, <2>2 DEF Perform, Batch!Succeed, callVars, contextVars
    <3> QED
      BY <2>1, <3>1 DEF Batch!Next
  <2>3. CASE pending' = [pending EXCEPT ![l] = "io"] /\ UNCHANGED performed
    <3>1. Failed'
      BY <2>3 DEF Inductive, TypeOK
    <3>2. Batch!Fail
      BY <1>8, <2>1, <2>3, <3>1 DEF Perform, Batch!Fail, callVars, contextVars
    <3> QED
      BY <3>2 DEF Batch!Next
  <2> QED
    BY <1>8, <2>2, <2>3 DEF Perform
<1>9. CASE Return
  <2>1. firstError \in {"none", "io", "canceled"}
    BY DEF Inductive, TypeOK, Errors
  <2>2. firstError = "none" => performed = Slot /\ ~Failed
    BY <1>9, ClosedWithoutError DEF Return
  <2>3. firstError = "io" => Failed
    BY DEF Inductive, ErrorInv
  <2>4. firstError = "canceled" => parentCancelled
    BY DEF Inductive, ErrorInv
  <2>5. Batch!Return(firstError)
    BY <1>9, <2>1, <2>2, <2>3, <2>4 DEF Return, Batch!Return, laneVars, history
  <2> QED
    BY <2>1, <2>5 DEF Batch!Next
<1>10. CASE CancelParent
  <2>1. Batch!RequestCancel
    BY <1>10 DEF CancelParent, Batch!RequestCancel, laneVars, callVars, history
  <2> QED
    BY <2>1 DEF Batch!Next
<1>11. CASE StartWaiter
  BY <1>11 DEF StartWaiter, Batch!vars, laneVars, contextVars, history
<1>12. CASE MeasureDuration \/ CloseResults \/ PropagateCancel \/ DeadlinePasses
  BY <1>12, BatchStutters DEF MeasureDuration, CloseResults, PropagateCancel, DeadlinePasses,
     laneVars, callVars, contextVars, history
<1>13. CASE UNCHANGED vars
  BY <1>13, BatchStutters DEF vars, laneVars, callVars, contextVars, history
<1> QED
  BY <1>1, <1>2, <1>3, <1>4, <1>5, <1>6, <1>7, <1>8, <1>9, <1>10, <1>11, <1>12, <1>13
  DEF Next, Caller, Waiter, Environment, LaneStep, Terminated

\* The engine implements the abstract batch of operations.
THEOREM EngineImplementsBatch == Spec => ImplementsBatch
<1>1. Init => Batch!Init
  BY DEF Init, Batch!Init
<1> QED
  BY <1>1, BatchStep, InductiveInvariant, PTL DEF Spec, ImplementsBatch, Batch!Spec

-----------------------------------------------------------------------------
(* Sums: what SumFunction computes.  A recursive function is not known to exist *)
(* before that is proved, here by counting up the sizes of its arguments.       *)

\* Numbers have a least one: the form of induction the lemmas below use.
LEMMA LeastNumber ==
  ASSUME NEW T \in SUBSET Nat, T # {}
  PROVE  \E n \in T : \A m \in T : n <= m
<1>1. PICK R : R = OpToRel(<, Nat) /\ IsWellFoundedOn(R, Nat)
  BY NatLessThanWellFounded
<1>2. \A a, b \in Nat : a < b => <<a, b>> \in R
  BY <1>1 DEF OpToRel
<1>3. PICK n \in T : \A m \in T : ~(<<m, n>> \in R)
  BY <1>1, WFMin
<1>4. ASSUME NEW m \in T
      PROVE  n <= m
  <2>1. m \in Nat /\ n \in Nat /\ ~(m < n)
    BY <1>2, <1>3
  <2> QED
    BY <2>1
<1> QED
  BY <1>4

\* The element a sum over a set begins with.
firstOf(set) == CHOOSE x \in set : TRUE

\* A set is summed up element by element.
SumsUp(sum, f, sets) ==
  \A set \in sets : sum[set] = IF set = {} THEN 0 ELSE f[firstOf(set)] + sum[set \ {firstOf(set)}]

\* Subsets are reached from the empty set, one element at a time.
LEMMA SubsetInduction ==
  ASSUME NEW D, IsFiniteSet(D), NEW Good \in SUBSET (SUBSET D), {} \in Good,
         \A set \in SUBSET D : set # {} /\ set \ {firstOf(set)} \in Good => set \in Good
  PROVE  Good = SUBSET D
<1> DEFINE Sizes == {Cardinality(set) : set \in (SUBSET D) \ Good}
<1>1. \A set \in SUBSET D : IsFiniteSet(set) /\ Cardinality(set) \in Nat
  BY FS_Subset, FS_CardinalityType
<1>2. ASSUME Good # SUBSET D
      PROVE  FALSE
  <2>1. Sizes \in SUBSET Nat /\ Sizes # {}
    BY <1>1, <1>2
  <2>2. PICK n \in Sizes : \A m \in Sizes : n <= m
    BY <2>1, LeastNumber
  <2>3. PICK set \in (SUBSET D) \ Good : Cardinality(set) = n
    BY <2>2
  <2>4. set # {} /\ set \ {firstOf(set)} \notin Good /\ firstOf(set) \in set
    BY <2>3 DEF firstOf
  <2>5. Cardinality(set \ {firstOf(set)}) = n - 1 /\ n \in Nat
    BY <1>1, <2>3, <2>4, FS_RemoveElement
  <2>6. n - 1 \in Sizes
    BY <2>3, <2>4, <2>5
  <2> QED
    BY <2>2, <2>5, <2>6
<1> QED
  BY <1>2

\* There is a function that sums up all subsets.
LEMMA SumExists ==
  ASSUME NEW D, IsFiniteSet(D), NEW f \in [D -> Nat]
  PROVE  \E sum \in [SUBSET D -> Nat] : SumsUp(sum, f, SUBSET D)
<1> DEFINE Small(n) == {set \in SUBSET D : Cardinality(set) <= n}
           Missing == {n \in Nat : ~\E sum \in [Small(n) -> Nat] : SumsUp(sum, f, Small(n))}
<1>1. \A set \in SUBSET D : IsFiniteSet(set) /\ Cardinality(set) \in Nat /\ Cardinality(set) <= Cardinality(D)
  BY FS_Subset, FS_CardinalityType
<1>2. \A set \in SUBSET D : set # {} =>
        /\ firstOf(set) \in set /\ firstOf(set) \in D /\ set \ {firstOf(set)} \in SUBSET D
        /\ Cardinality(set \ {firstOf(set)}) = Cardinality(set) - 1
  BY <1>1, FS_RemoveElement DEF firstOf
<1>3. Missing = {}
  <2>1. SUFFICES ASSUME Missing # {} PROVE FALSE
    OBVIOUS
  <2>2. PICK n \in Missing : \A m \in Missing : n <= m
    <3>1. Missing \in SUBSET Nat
      OBVIOUS
    <3> HIDE DEF Missing
    <3> QED
      BY <2>1, <3>1, LeastNumber
  <2>3. n # 0
    <3> SUFFICES ASSUME n = 0 PROVE FALSE
      OBVIOUS
    <3>1. Small(0) = {{}}
      BY <1>1, FS_EmptySet
    <3>2. [set \in {{}} |-> 0] \in [Small(0) -> Nat] /\ SumsUp([set \in {{}} |-> 0], f, Small(0))
      BY <3>1 DEF SumsUp
    <3> QED
      BY <2>2, <3>2
  <2>4. n - 1 \in Nat /\ n - 1 \notin Missing
    <3>1. n \in Nat /\ n - 1 \in Nat /\ ~(n <= n - 1)
      BY <2>2, <2>3
    <3> HIDE DEF Missing
    <3> QED
      BY <2>2, <3>1
  <2>5. PICK less \in [Small(n - 1) -> Nat] : SumsUp(less, f, Small(n - 1))
    BY <2>4
  <2> DEFINE sum == [set \in Small(n) |-> IF set = {} THEN 0 ELSE f[firstOf(set)] + less[set \ {firstOf(set)}]]
  <2>6. \A set \in Small(n) : set # {} => set \ {firstOf(set)} \in Small(n - 1)
    BY <1>1, <1>2, <2>4
  <2>7. sum \in [Small(n) -> Nat]
    BY <1>2, <2>6
  <2>8. \A set \in Small(n - 1) : set \in Small(n) /\ sum[set] = less[set]
    <3>1. ASSUME NEW set \in Small(n - 1)
          PROVE  set \in Small(n)
      BY <1>1, <2>4
    <3> QED
      BY <2>5, <3>1 DEF SumsUp
  <2>9. SumsUp(sum, f, Small(n))
    BY <2>6, <2>8 DEF SumsUp
  <2> HIDE DEF sum
  <2> QED
    BY <2>2, <2>7, <2>9
<1>4. Small(Cardinality(D)) = SUBSET D
  BY <1>1
<1>5. Cardinality(D) \in Nat
  BY FS_CardinalityType
<1>6. \E sum \in [Small(Cardinality(D)) -> Nat] : SumsUp(sum, f, Small(Cardinality(D)))
  BY <1>3, <1>5
<1> HIDE DEF Small
<1> QED
  BY <1>4, <1>6

\* SumFunction is such a function, applied to the whole domain.
LEMMA SumOf ==
  ASSUME NEW D, IsFiniteSet(D), NEW f \in [D -> Nat]
  PROVE  \E sum \in [SUBSET D -> Nat] : SumsUp(sum, f, SUBSET D) /\ SumFunction(f) = sum[D]
<1> DEFINE Recursive(g) ==
      g = [set \in SUBSET D |-> IF set = {} THEN 0
                                ELSE f[CHOOSE x \in set : TRUE] + g[set \ {CHOOSE x \in set : TRUE}]]
<1>1. PICK sum \in [SUBSET D -> Nat] : SumsUp(sum, f, SUBSET D)
  BY SumExists
<1>2. Recursive(sum)
  BY <1>1 DEF SumsUp, firstOf
<1>3. Recursive(CHOOSE g : Recursive(g))
  BY <1>2, Zenon
<1>4. DOMAIN f = D
  OBVIOUS
<1>5. SumFunction(f) = (CHOOSE g : Recursive(g))[D]
  BY <1>4, Zenon DEF SumFunction, SumFunctionOnSet, FoldFunctionOnSet, MapThenFoldSet
<1>6. PICK g : g = CHOOSE h : Recursive(h)
  OBVIOUS
<1>7. Recursive(g) /\ SumFunction(f) = g[D]
  BY <1>3, <1>5, <1>6
<1>8. SumsUp(g, f, SUBSET D) /\ DOMAIN g = SUBSET D
  BY <1>7 DEF SumsUp, firstOf
<1>9. g = sum
  <2> DEFINE Good == {set \in SUBSET D : g[set] = sum[set]}
  <2>1. {} \in Good
    BY <1>1, <1>8 DEF SumsUp
  <2>2. \A set \in SUBSET D : set # {} /\ set \ {firstOf(set)} \in Good => set \in Good
    BY <1>1, <1>8 DEF SumsUp
  <2>3. Good \in SUBSET (SUBSET D)
    OBVIOUS
  <2> HIDE DEF Good
  <2>4. Good = SUBSET D
    BY <2>1, <2>2, <2>3, SubsetInduction
  <2>5. \A set \in SUBSET D : g[set] = sum[set]
    BY <2>4 DEF Good
  <2>6. g = [set \in SUBSET D |-> g[set]] /\ sum = [set \in SUBSET D |-> sum[set]]
    BY <1>7
  <2> QED
    BY <2>5, <2>6
<1> QED
  BY <1>1, <1>7, <1>9

\* A sum of numbers is a number.
LEMMA SumType ==
  ASSUME NEW D, IsFiniteSet(D), NEW f \in [D -> Nat]
  PROVE  SumFunction(f) \in Nat
<1>1. PICK sum \in [SUBSET D -> Nat] : SumsUp(sum, f, SUBSET D) /\ SumFunction(f) = sum[D]
  BY SumOf
<1> QED
  BY <1>1

\* Adding to one summand adds to the sum.
LEMMA SumChanges ==
  ASSUME NEW D, IsFiniteSet(D), NEW f \in [D -> Nat], NEW x \in D, NEW n \in Nat, NEW g \in [D -> Nat],
         g[x] = f[x] + n, \A y \in D \ {x} : g[y] = f[y]
  PROVE  SumFunction(f) \in Nat /\ SumFunction(g) = SumFunction(f) + n
<1>1. PICK sum \in [SUBSET D -> Nat] : SumsUp(sum, f, SUBSET D) /\ SumFunction(f) = sum[D]
  BY SumOf
<1>2. PICK more \in [SUBSET D -> Nat] : SumsUp(more, g, SUBSET D) /\ SumFunction(g) = more[D]
  BY SumOf
<1> DEFINE Good == {set \in SUBSET D : more[set] = sum[set] + (IF x \in set THEN n ELSE 0)}
<1>3. {} \in Good
  <2>1. sum[{}] = 0 /\ more[{}] = 0
    BY <1>1, <1>2 DEF SumsUp
  <2> QED
    BY <2>1
<1>4. ASSUME NEW set \in SUBSET D, set # {}, set \ {firstOf(set)} \in Good
      PROVE  set \in Good
  <2>1. firstOf(set) \in set
    BY <1>4 DEF firstOf
  <2>2. sum[set] = f[firstOf(set)] + sum[set \ {firstOf(set)}] /\ more[set] = g[firstOf(set)] + more[set \ {firstOf(set)}]
    BY <1>1, <1>2, <1>4 DEF SumsUp
  <2>3. sum[set \ {firstOf(set)}] \in Nat /\ f[firstOf(set)] \in Nat /\ sum[set] \in Nat
    BY <1>1, <2>1
  <2>4. CASE firstOf(set) = x
    BY <1>4, <2>1, <2>2, <2>3, <2>4
  <2>5. CASE firstOf(set) # x
    BY <1>4, <2>1, <2>2, <2>3, <2>5
  <2> QED
    BY <2>4, <2>5
<1>5. Good \in SUBSET (SUBSET D)
  OBVIOUS
<1> HIDE DEF Good
<1>6. Good = SUBSET D
  BY <1>3, <1>4, <1>5, SubsetInduction
<1>7. D \in Good
  BY <1>6
<1> QED
  BY <1>1, <1>2, <1>7 DEF Good

\* A sum of zeroes is zero.
LEMMA SumOfZeroes ==
  ASSUME NEW D, IsFiniteSet(D), NEW f \in [D -> Nat], \A x \in D : f[x] = 0
  PROVE  SumFunction(f) = 0
<1>1. PICK sum \in [SUBSET D -> Nat] : SumsUp(sum, f, SUBSET D) /\ SumFunction(f) = sum[D]
  BY SumOf
<1> DEFINE Good == {set \in SUBSET D : sum[set] = 0}
<1>2. {} \in Good
  BY <1>1 DEF SumsUp
<1>3. ASSUME NEW set \in SUBSET D, set # {}, set \ {firstOf(set)} \in Good
      PROVE  set \in Good
  <2>1. firstOf(set) \in set /\ f[firstOf(set)] = 0
    BY <1>3 DEF firstOf
  <2> QED
    BY <1>1, <1>3, <2>1 DEF SumsUp
<1>4. Good \in SUBSET (SUBSET D)
  OBVIOUS
<1> HIDE DEF Good
<1>5. Good = SUBSET D
  BY <1>2, <1>3, <1>4, SubsetInduction
<1> QED
  BY <1>1, <1>5 DEF Good

\* Larger summands have a larger sum.
LEMMA SumIsMonotonic ==
  ASSUME NEW D, IsFiniteSet(D), NEW f \in [D -> Nat], NEW g \in [D -> Nat], \A x \in D : f[x] <= g[x]
  PROVE  SumFunction(f) \in Nat /\ SumFunction(g) \in Nat /\ SumFunction(f) <= SumFunction(g)
<1>1. PICK sum \in [SUBSET D -> Nat] : SumsUp(sum, f, SUBSET D) /\ SumFunction(f) = sum[D]
  BY SumOf
<1>2. PICK more \in [SUBSET D -> Nat] : SumsUp(more, g, SUBSET D) /\ SumFunction(g) = more[D]
  BY SumOf
<1> DEFINE Good == {set \in SUBSET D : sum[set] <= more[set]}
<1>3. {} \in Good
  <2>1. sum[{}] = 0 /\ more[{}] = 0
    BY <1>1, <1>2 DEF SumsUp
  <2> QED
    BY <2>1
<1>4. ASSUME NEW set \in SUBSET D, set # {}, set \ {firstOf(set)} \in Good
      PROVE  set \in Good
  <2>1. firstOf(set) \in set /\ set \ {firstOf(set)} \in SUBSET D
    BY <1>4 DEF firstOf
  <2>2. sum[set] = f[firstOf(set)] + sum[set \ {firstOf(set)}] /\ more[set] = g[firstOf(set)] + more[set \ {firstOf(set)}]
    BY <1>1, <1>2, <1>4 DEF SumsUp
  <2>3. /\ sum[set \ {firstOf(set)}] \in Nat /\ f[firstOf(set)] \in Nat
        /\ more[set \ {firstOf(set)}] \in Nat /\ g[firstOf(set)] \in Nat
        /\ f[firstOf(set)] <= g[firstOf(set)]
    BY <2>1
  <2> QED
    BY <1>4, <2>2, <2>3
<1>5. Good \in SUBSET (SUBSET D)
  OBVIOUS
<1> HIDE DEF Good
<1>6. Good = SUBSET D
  BY <1>3, <1>4, <1>5, SubsetInduction
<1>7. D \in Good
  BY <1>6
<1> QED
  BY <1>1, <1>2, <1>7 DEF Good

-----------------------------------------------------------------------------
(* What is counted *)

\* What a lane has handed to the collector when it is at position p of its pass c:
\* all of the passes before, and of this one what lies before p.
Passed(l, p) == [i \in DOMAIN laneOperations(l) |-> IF i < p THEN laneOperations(l)[i].size ELSE 0]
Sent(l, p, c) == (c - 1) * lanePasses[l] + (p - 1)
SentBytes(l, p, c) == (c - 1) * laneBytes[l] + SumFunction(Passed(l, p))

AllSent(p, c) == [l \in Lane |-> Sent(l, p[l], c[l])]
AllBytes(p, c) == [l \in Lane |-> SentBytes(l, p[l], c[l])]

\* The measurement is what the lanes have handed over.
CountInv ==
  /\ ~timed => \A l \in Lane : cycle[l] = 1
  /\ measurement.Operations = measurement.Reads + measurement.Writes
  /\ measurement.Operations = SumFunction(AllSent(position, cycle))
  /\ measurement.Bytes = SumFunction(AllBytes(position, cycle))

\* One more pass is one more summand.
LEMMA OneMore ==
  ASSUME NEW k \in Nat, NEW n \in Nat
  PROVE  (k + 1) * n = k * n + n /\ k * n \in Nat
OBVIOUS

Positive == Nat \ {0}

\* A lane has a number of operations, and they have a number of bytes.
LEMMA LaneNumbers ==
  ASSUME NEW l \in Lane
  PROVE  /\ lanePasses[l] = Len(laneOperations(l)) /\ lanePasses[l] \in Nat
         /\ DOMAIN laneOperations(l) = 1..lanePasses[l] /\ IsFiniteSet(1..lanePasses[l])
         /\ \A i \in 1..lanePasses[l] : laneOperations(l)[i].size \in Nat
         /\ laneBytes[l] = SumFunction([i \in 1..lanePasses[l] |-> laneOperations(l)[i].size])
         /\ laneBytes[l] \in Nat
<1> DEFINE sizes == [i \in 1..lanePasses[l] |-> laneOperations(l)[i].size]
<1>1. /\ lanePasses[l] = Len(laneOperations(l)) /\ lanePasses[l] \in Nat
      /\ DOMAIN laneOperations(l) = 1..lanePasses[l]
      /\ \A i \in 1..lanePasses[l] : laneOperations(l)[i] \in Operation
  BY LaneHasOperations DEF lanePasses
<1>2. IsFiniteSet(1..lanePasses[l])
  BY <1>1, FS_Interval
<1>3. \A i \in 1..lanePasses[l] : laneOperations(l)[i].size \in Nat
  BY <1>1 DEF Operation
<1>4. sizes \in [1..lanePasses[l] -> Nat]
  BY <1>3
<1>5. laneBytes[l] = SumFunction(sizes)
  BY <1>1 DEF laneBytes
<1> HIDE DEF sizes
<1>6. SumFunction(sizes) \in Nat
  BY <1>2, <1>4, SumType
<1> QED
  BY <1>1, <1>2, <1>3, <1>5, <1>6 DEF sizes

\* What a lane has handed over in a pass: nothing at its beginning, one operation
\* more at each position, and all of it at its end.
LEMMA PassedSums ==
  ASSUME NEW l \in Lane
  PROVE  /\ \A p \in Positive : SumFunction(Passed(l, p)) \in Nat
         /\ SumFunction(Passed(l, 1)) = 0
         /\ \A p \in 1..lanePasses[l] :
              SumFunction(Passed(l, p + 1)) = SumFunction(Passed(l, p)) + laneOperations(l)[p].size
         /\ SumFunction(Passed(l, lanePasses[l] + 1)) = laneBytes[l]
<1>1. /\ lanePasses[l] \in Nat /\ DOMAIN laneOperations(l) = 1..lanePasses[l] /\ IsFiniteSet(1..lanePasses[l])
      /\ \A i \in 1..lanePasses[l] : laneOperations(l)[i].size \in Nat
  BY LaneNumbers
<1>2. \A p \in Positive : Passed(l, p) \in [1..lanePasses[l] -> Nat]
  BY <1>1 DEF Passed
<1>3. ASSUME NEW p \in Positive
      PROVE  SumFunction(Passed(l, p)) \in Nat
  BY <1>1, <1>2, SumType
<1>4. SumFunction(Passed(l, 1)) = 0
  <2>1. \A i \in 1..lanePasses[l] : Passed(l, 1)[i] = 0
    BY <1>1 DEF Passed
  <2>2. Passed(l, 1) \in [1..lanePasses[l] -> Nat]
    BY <1>2 DEF Positive
  <2> QED
    BY <1>1, <2>1, <2>2, SumOfZeroes
<1>5. ASSUME NEW p \in 1..lanePasses[l]
      PROVE  SumFunction(Passed(l, p + 1)) = SumFunction(Passed(l, p)) + laneOperations(l)[p].size
  <2>1. Passed(l, p) \in [1..lanePasses[l] -> Nat] /\ Passed(l, p + 1) \in [1..lanePasses[l] -> Nat]
    BY <1>1, <1>2 DEF Positive
  <2>2. Passed(l, p + 1)[p] = Passed(l, p)[p] + laneOperations(l)[p].size
    BY <1>1 DEF Passed
  <2>3. \A i \in (1..lanePasses[l]) \ {p} : Passed(l, p + 1)[i] = Passed(l, p)[i]
    BY <1>1 DEF Passed
  <2>4. laneOperations(l)[p].size \in Nat
    BY <1>1
  <2>5. PICK D : D = 1..lanePasses[l]
    OBVIOUS
  <2>6. PICK f, g, size, x :
          f = Passed(l, p) /\ g = Passed(l, p + 1) /\ size = laneOperations(l)[p].size /\ x = p
    OBVIOUS
  <2>7. f \in [D -> Nat] /\ g \in [D -> Nat] /\ size \in Nat /\ x \in D /\ IsFiniteSet(D)
    BY <1>1, <2>1, <2>4, <2>5, <2>6
  <2>8. g[x] = f[x] + size /\ \A i \in D \ {x} : g[i] = f[i]
    BY <2>2, <2>3, <2>5, <2>6
  <2>9. SumFunction(g) = SumFunction(f) + size
    BY <2>7, <2>8, SumChanges
  <2> QED
    BY <2>6, <2>9
<1>6. SumFunction(Passed(l, lanePasses[l] + 1)) = laneBytes[l]
  <2>1. Passed(l, lanePasses[l] + 1) = [i \in 1..lanePasses[l] |-> laneOperations(l)[i].size]
    BY <1>1 DEF Passed
  <2> QED
    BY <2>1, LaneNumbers
<1> QED
  BY <1>3, <1>4, <1>5, <1>6

\* What the lanes have handed over are numbers.
LEMMA SentTypes ==
  ASSUME NEW p \in [Lane -> Positive], NEW c \in [Lane -> Positive]
  PROVE  /\ \A l \in Lane : Sent(l, p[l], c[l]) \in Nat /\ SentBytes(l, p[l], c[l]) \in Nat
         /\ AllSent(p, c) \in [Lane -> Nat] /\ AllBytes(p, c) \in [Lane -> Nat]
<1>1. ASSUME NEW l \in Lane
      PROVE  Sent(l, p[l], c[l]) \in Nat /\ SentBytes(l, p[l], c[l]) \in Nat
  <2>1. p[l] \in Positive /\ c[l] - 1 \in Nat /\ p[l] - 1 \in Nat
    BY DEF Positive
  <2>2. lanePasses[l] \in Nat /\ laneBytes[l] \in Nat
    BY LaneNumbers
  <2>3. SumFunction(Passed(l, p[l])) \in Nat
    BY <2>1, PassedSums
  <2>4. (c[l] - 1) * lanePasses[l] \in Nat /\ (c[l] - 1) * laneBytes[l] \in Nat
    BY <2>1, <2>2, OneMore
  <2> QED
    BY <2>1, <2>3, <2>4 DEF Sent, SentBytes
<1> QED
  BY <1>1 DEF AllSent, AllBytes

\* A lane that hands over n more operations, of so many bytes, adds them to the
\* sums over all lanes.
LEMMA SumsChange ==
  ASSUME NEW p \in [Lane -> Positive], NEW c \in [Lane -> Positive],
         NEW q \in [Lane -> Positive], NEW d \in [Lane -> Positive],
         NEW l \in Lane, NEW n \in Nat, NEW bytes \in Nat,
         \A k \in Lane \ {l} : q[k] = p[k] /\ d[k] = c[k],
         Sent(l, q[l], d[l]) = Sent(l, p[l], c[l]) + n,
         SentBytes(l, q[l], d[l]) = SentBytes(l, p[l], c[l]) + bytes
  PROVE  /\ SumFunction(AllSent(q, d)) = SumFunction(AllSent(p, c)) + n
         /\ SumFunction(AllBytes(q, d)) = SumFunction(AllBytes(p, c)) + bytes
<1>1. /\ AllSent(p, c) \in [Lane -> Nat] /\ AllBytes(p, c) \in [Lane -> Nat]
      /\ AllSent(q, d) \in [Lane -> Nat] /\ AllBytes(q, d) \in [Lane -> Nat]
  BY SentTypes
<1>2. /\ AllSent(q, d)[l] = AllSent(p, c)[l] + n /\ AllBytes(q, d)[l] = AllBytes(p, c)[l] + bytes
      /\ \A k \in Lane \ {l} : AllSent(q, d)[k] = AllSent(p, c)[k] /\ AllBytes(q, d)[k] = AllBytes(p, c)[k]
  BY DEF AllSent, AllBytes
<1>3. SumFunction(AllSent(q, d)) = SumFunction(AllSent(p, c)) + n
  BY <1>1, <1>2, LaneIsFinite, SumChanges
<1>4. SumFunction(AllBytes(q, d)) = SumFunction(AllBytes(p, c)) + bytes
  BY <1>1, <1>2, LaneIsFinite, SumChanges
<1> QED
  BY <1>3, <1>4

\* Positions and passes are counted from one.
LEMMA PlacesArePositive == TypeOK => position \in [Lane -> Positive] /\ cycle \in [Lane -> Positive]
BY EngineAssumption DEF TypeOK, Positive

\* Nothing has been handed over to begin with.
LEMMA CountInit == Init => CountInv
<1> SUFFICES ASSUME Init PROVE CountInv
  OBVIOUS
<1>1. position \in [Lane -> Positive] /\ cycle \in [Lane -> Positive]
  BY InductiveInit, PlacesArePositive DEF Inductive
<1>2. ASSUME NEW l \in Lane
      PROVE  cycle[l] = 1 /\ AllSent(position, cycle)[l] = 0 /\ AllBytes(position, cycle)[l] = 0
  <2>1. cycle[l] = 1 /\ position[l] = 1
    BY DEF Init
  <2>2. lanePasses[l] \in Nat /\ laneBytes[l] \in Nat /\ SumFunction(Passed(l, 1)) = 0
    BY LaneNumbers, PassedSums
  <2> QED
    BY <2>1, <2>2 DEF Sent, SentBytes, AllSent, AllBytes
<1>3. SumFunction(AllSent(position, cycle)) = 0 /\ SumFunction(AllBytes(position, cycle)) = 0
  BY <1>1, <1>2, LaneIsFinite, SentTypes, SumOfZeroes
<1> QED
  BY <1>2, <1>3 DEF CountInv, Init

\* A lane that hands over its result is counted.
LEMMA DeliverCounts ==
  ASSUME Inductive, CountInv, TypeOK', NEW l \in Lane, Deliver(l), pending[l] = "none"
  PROVE  CountInv'
<1>1. /\ measurement' = counted(measurement, current(l))
      /\ position' = [position EXCEPT ![l] = @ + 1]
      /\ UNCHANGED <<cycle, timed>>
      /\ pc[l] = "send"
  BY DEF Deliver, contextVars
<1>2. /\ TypeOK /\ position \in [Lane -> Positive] /\ cycle \in [Lane -> Positive]
      /\ position' \in [Lane -> Positive]
  <2>1. position' \in [Lane -> Positive]
    BY DEF TypeOK, Positive
  <2> QED
    BY <2>1, PlacesArePositive DEF Inductive
<1>3. PICK p \in [Lane -> Positive], c \in [Lane -> Positive], q \in [Lane -> Positive] :
        p = position /\ c = cycle /\ q = position'
  BY <1>2
<1>4. /\ p[l] \in 1..lanePasses[l] /\ q[l] = p[l] + 1 /\ c[l] - 1 \in Nat
      /\ \A k \in Lane \ {l} : q[k] = p[k]
  <2>1. p[l] <= Len(laneOperations(l))
    BY <1>1, <1>3 DEF Inductive, PlanInv, LanePlan
  <2>2. lanePasses[l] = Len(laneOperations(l)) /\ lanePasses[l] \in Nat
    BY LaneNumbers
  <2>3. p[l] \in Nat \ {0} /\ c[l] \in Nat \ {0}
    BY DEF Positive
  <2>4. p[l] \in 1..lanePasses[l] /\ c[l] - 1 \in Nat
    BY <2>1, <2>2, <2>3
  <2>5. q[l] = p[l] + 1 /\ \A k \in Lane \ {l} : q[k] = p[k]
    BY <1>1, <1>3
  <2> QED
    BY <2>4, <2>5
<1>5. PICK size : size = current(l).size
  OBVIOUS
<1>6. size = laneOperations(l)[p[l]].size /\ size \in Nat /\ current(l).write \in BOOLEAN
  <2>1. current(l) = laneOperations(l)[p[l]]
    BY <1>3 DEF current
  <2>2. current(l) \in Operation
    <3>1. p[l] \in 1..Len(laneOperations(l))
      BY <1>4, LaneNumbers
    <3> QED
      BY <2>1, <3>1, LaneHasOperations
  <2> QED
    BY <1>5, <2>1, <2>2 DEF Operation
<1>7. Sent(l, q[l], c[l]) = Sent(l, p[l], c[l]) + 1 /\ SentBytes(l, q[l], c[l]) = SentBytes(l, p[l], c[l]) + size
  <2>1. lanePasses[l] \in Nat /\ laneBytes[l] \in Nat
    BY LaneNumbers
  <2>2. (c[l] - 1) * lanePasses[l] \in Nat /\ (c[l] - 1) * laneBytes[l] \in Nat
    BY <1>4, <2>1, OneMore
  <2>3. SumFunction(Passed(l, q[l])) = SumFunction(Passed(l, p[l])) + size /\ SumFunction(Passed(l, p[l])) \in Nat
    BY <1>4, <1>6, PassedSums DEF Positive
  <2> QED
    BY <1>4, <1>6, <2>2, <2>3 DEF Sent, SentBytes
<1>8. /\ SumFunction(AllSent(q, c)) = SumFunction(AllSent(p, c)) + 1
      /\ SumFunction(AllBytes(q, c)) = SumFunction(AllBytes(p, c)) + size
  BY <1>4, <1>6, <1>7, SumsChange
<1>9. /\ measurement'.Operations = measurement.Operations + 1
      /\ measurement'.Bytes = measurement.Bytes + size
      /\ measurement'.Operations = measurement'.Reads + measurement'.Writes
  BY <1>1, <1>2, <1>5, <1>6 DEF counted, TypeOK, Measurement, CountInv
<1> QED
  BY <1>1, <1>3, <1>8, <1>9 DEF CountInv

\* A lane that begins another pass has handed over a whole one.
LEMMA PassCounts ==
  ASSUME Inductive, CountInv, TypeOK', NEW l \in Lane, EndPass(l), timed, ~expired
  PROVE  CountInv'
<1>1. /\ position' = [position EXCEPT ![l] = 1] /\ cycle' = [cycle EXCEPT ![l] = @ + 1]
      /\ UNCHANGED <<measurement, timed>> /\ pc[l] = "passEnd"
  BY DEF EndPass, contextVars, callVars
<1>2. /\ TypeOK /\ position \in [Lane -> Positive] /\ cycle \in [Lane -> Positive]
      /\ position' \in [Lane -> Positive] /\ cycle' \in [Lane -> Positive]
  <2>1. position' \in [Lane -> Positive] /\ cycle' \in [Lane -> Positive]
    BY EngineAssumption DEF TypeOK, Positive
  <2> QED
    BY <2>1, PlacesArePositive DEF Inductive
<1>3. PICK p \in [Lane -> Positive], c \in [Lane -> Positive],
           q \in [Lane -> Positive], d \in [Lane -> Positive] :
        p = position /\ c = cycle /\ q = position' /\ d = cycle'
  BY <1>2
<1>4. /\ p[l] = lanePasses[l] + 1 /\ q[l] = 1 /\ d[l] = c[l] + 1 /\ c[l] - 1 \in Nat
      /\ \A k \in Lane \ {l} : q[k] = p[k] /\ d[k] = c[k]
  <2>1. p[l] = lanePasses[l] + 1
    BY <1>1, <1>3, LaneNumbers DEF Inductive, PlanInv, LanePlan
  <2> QED
    BY <1>1, <1>3, <2>1 DEF Positive
<1>5. lanePasses[l] \in Nat /\ laneBytes[l] \in Nat
  BY LaneNumbers
<1>6. PICK k \in Nat : k = c[l] - 1 /\ c[l] = k + 1 /\ d[l] - 1 = k + 1
  BY <1>4 DEF Positive
<1>7. Sent(l, q[l], d[l]) = Sent(l, p[l], c[l]) + 0
  <2>1. (k + 1) * lanePasses[l] = k * lanePasses[l] + lanePasses[l] /\ k * lanePasses[l] \in Nat
    BY <1>5, OneMore
  <2>2. Sent(l, q[l], d[l]) = (k + 1) * lanePasses[l] + (1 - 1)
    BY <1>4, <1>6 DEF Sent
  <2>3. Sent(l, p[l], c[l]) = k * lanePasses[l] + lanePasses[l]
    <3>1. Sent(l, p[l], c[l]) = (c[l] - 1) * lanePasses[l] + (p[l] - 1)
      BY DEF Sent
    <3>2. (c[l] - 1) * lanePasses[l] = k * lanePasses[l]
      BY <1>6, Zenon
    <3>3. p[l] - 1 = lanePasses[l]
      BY <1>4, <1>5
    <3> QED
      BY <3>1, <3>2, <3>3, Zenon
  <2> QED
    BY <1>5, <2>1, <2>2, <2>3
<1>8. SentBytes(l, q[l], d[l]) = SentBytes(l, p[l], c[l]) + 0
  <2>1. (k + 1) * laneBytes[l] = k * laneBytes[l] + laneBytes[l] /\ k * laneBytes[l] \in Nat
    BY <1>5, OneMore
  <2>2. SumFunction(Passed(l, q[l])) = 0 /\ SumFunction(Passed(l, p[l])) = laneBytes[l]
    BY <1>4, PassedSums
  <2>3. SentBytes(l, q[l], d[l]) = (k + 1) * laneBytes[l] + 0
    BY <1>6, <2>2 DEF SentBytes
  <2>4. SentBytes(l, p[l], c[l]) = k * laneBytes[l] + laneBytes[l]
    BY <1>6, <2>2 DEF SentBytes
  <2> QED
    BY <1>5, <2>1, <2>3, <2>4
<1>9. /\ SumFunction(AllSent(q, d)) = SumFunction(AllSent(p, c)) + 0
      /\ SumFunction(AllBytes(q, d)) = SumFunction(AllBytes(p, c)) + 0
  <2>1. 0 \in Nat /\ \A m \in Lane \ {l} : q[m] = p[m] /\ d[m] = c[m]
    BY <1>4
  <2> QED
    BY <1>7, <1>8, <2>1, SumsChange
<1>10. measurement.Operations \in Nat /\ measurement.Bytes \in Nat
  BY <1>2 DEF TypeOK, Measurement
<1> QED
  BY <1>1, <1>3, <1>9, <1>10 DEF CountInv

\* Every step keeps the count.
LEMMA CountStep == Inductive /\ CountInv /\ [Next]_vars => CountInv'
<1> SUFFICES ASSUME Inductive, CountInv, [Next]_vars PROVE CountInv'
  OBVIOUS
<1>1. TypeOK'
  BY TypeStep
<1>2. CASE UNCHANGED <<position, cycle, measurement, timed>>
  BY <1>2 DEF CountInv
<1>3. \/ UNCHANGED <<position, cycle, measurement, timed>>
      \/ \E l \in Lane : Deliver(l) /\ pending[l] = "none"
      \/ \E l \in Lane : EndPass(l) /\ timed /\ ~expired
  <2>1. ASSUME NEW l \in Lane, Deliver(l), pending[l] # "none"
        PROVE  UNCHANGED <<position, cycle, measurement, timed>>
    BY <2>1 DEF Deliver, contextVars
  <2>2. ASSUME NEW l \in Lane, EndPass(l), ~timed \/ expired
        PROVE  UNCHANGED <<position, cycle, measurement, timed>>
    BY <2>2 DEF EndPass, callVars, contextVars
  <2>3. ASSUME NEW l \in Lane, CheckContext(l) \/ CheckDeadline(l) \/ Perform(l) \/ CancelOthers(l) \/ Exit(l) \/ Spawn(l)
        PROVE  UNCHANGED <<position, cycle, measurement, timed>>
    BY <2>3 DEF CheckContext, CheckDeadline, Perform, CancelOthers, Exit, Spawn, callVars, contextVars
  <2>4. CASE StartWaiter \/ Return \/ Waiter \/ Environment \/ UNCHANGED vars
    BY <2>4 DEF StartWaiter, Return, Waiter, MeasureDuration, CloseResults, Environment, CancelParent,
                PropagateCancel, DeadlinePasses, laneVars, callVars, contextVars, vars
  <2> QED
    BY <2>1, <2>2, <2>3, <2>4 DEF Next, Caller, LaneStep, Terminated
<1> QED
  BY <1>1, <1>2, <1>3, DeliverCounts, PassCounts

\* When the call succeeds every lane has made a whole pass, and only that one
\* unless the plan is timed.
LEMMA SuccessIsCounted ==
  ASSUME Inductive, CountInv, collector = "returned", firstError = "none", NEW l \in Lane
  PROVE  /\ lanePasses[l] <= Sent(l, position[l], cycle[l])
         /\ laneBytes[l] <= SentBytes(l, position[l], cycle[l])
         /\ ~timed => /\ Sent(l, position[l], cycle[l]) = lanePasses[l]
                      /\ SentBytes(l, position[l], cycle[l]) = laneBytes[l]
<1>1. TypeOK /\ position[l] \in Positive /\ cycle[l] \in Positive
  BY PlacesArePositive DEF Inductive
<1>2. PICK p \in Positive, c \in Positive : p = position[l] /\ c = cycle[l]
  BY <1>1
<1>3. c > 1 \/ p = lanePasses[l] + 1
  <2>1. pc[l] = "done" /\ pending[l] = "none"
    BY DEF Inductive, WaitInv, ErrorInv, Reported
  <2> QED
    BY <1>2, <2>1, LaneNumbers DEF Inductive, PlanInv, LanePlan
<1>4. /\ lanePasses[l] \in Nat /\ laneBytes[l] \in Nat /\ c - 1 \in Nat /\ p - 1 \in Nat
      /\ SumFunction(Passed(l, p)) \in Nat
  <2>1. lanePasses[l] \in Nat /\ laneBytes[l] \in Nat
    BY LaneNumbers
  <2>2. SumFunction(Passed(l, p)) \in Nat
    BY PassedSums
  <2>3. c - 1 \in Nat /\ p - 1 \in Nat
    BY DEF Positive
  <2> QED
    BY <2>1, <2>2, <2>3
<1>5. ASSUME c = 1
      PROVE  Sent(l, p, c) = lanePasses[l] /\ SentBytes(l, p, c) = laneBytes[l]
  <2>1. p = lanePasses[l] + 1
    BY <1>3, <1>5
  <2>2. SumFunction(Passed(l, p)) = laneBytes[l]
    BY <2>1, PassedSums
  <2> QED
    BY <1>4, <1>5, <2>1, <2>2 DEF Sent, SentBytes
<1>6. ASSUME c # 1
      PROVE  lanePasses[l] <= Sent(l, p, c) /\ laneBytes[l] <= SentBytes(l, p, c)
  <2>1. PICK k \in Nat : c - 1 = k + 1
    <3>1. c - 2 \in Nat /\ c - 1 = (c - 2) + 1
      BY <1>6 DEF Positive
    <3> QED
      BY <3>1
  <2>2. /\ (k + 1) * lanePasses[l] = k * lanePasses[l] + lanePasses[l] /\ k * lanePasses[l] \in Nat
        /\ (k + 1) * laneBytes[l] = k * laneBytes[l] + laneBytes[l] /\ k * laneBytes[l] \in Nat
    BY <1>4, OneMore
  <2>3. Sent(l, p, c) = (k + 1) * lanePasses[l] + (p - 1)
    BY <2>1 DEF Sent
  <2>4. SentBytes(l, p, c) = (k + 1) * laneBytes[l] + SumFunction(Passed(l, p))
    BY <2>1 DEF SentBytes
  <2> QED
    BY <1>4, <2>2, <2>3, <2>4
<1>7. ~timed => c = 1
  BY <1>2 DEF CountInv
<1> QED
  BY <1>2, <1>4, <1>5, <1>6, <1>7

\* A successful call has counted every operation of an untimed plan once, and
\* every operation of a timed plan at least once.
THEOREM PlanIsCounted == Spec => []SuccessCountsPlan
<1>1. Inductive /\ CountInv => SuccessCountsPlan
  <2> SUFFICES ASSUME Inductive, CountInv, collector = "returned", firstError = "none"
               PROVE  /\ measurement.Operations = measurement.Reads + measurement.Writes
                      /\ IF timed
                         THEN /\ measurement.Operations >= SumFunction(lanePasses)
                              /\ measurement.Bytes >= SumFunction(laneBytes)
                         ELSE /\ measurement.Operations = SumFunction(lanePasses)
                              /\ measurement.Bytes = SumFunction(laneBytes)
    BY DEF SuccessCountsPlan
  <2>1. PICK f, g : f = AllSent(position, cycle) /\ g = AllBytes(position, cycle)
    OBVIOUS
  <2>2. measurement.Operations = SumFunction(f) /\ measurement.Bytes = SumFunction(g)
    BY <2>1 DEF CountInv
  <2>3. f \in [Lane -> Nat] /\ g \in [Lane -> Nat]
    BY <2>1, PlacesArePositive, SentTypes DEF Inductive
  <2>4. lanePasses \in [Lane -> Nat] /\ laneBytes \in [Lane -> Nat]
    <3>1. lanePasses = [l \in Lane |-> lanePasses[l]] /\ laneBytes = [l \in Lane |-> laneBytes[l]]
      BY DEF lanePasses, laneBytes
    <3>2. \A l \in Lane : lanePasses[l] \in Nat /\ laneBytes[l] \in Nat
      BY LaneNumbers
    <3> QED
      BY <3>1, <3>2
  <2>5. \A l \in Lane : /\ lanePasses[l] <= f[l] /\ laneBytes[l] <= g[l]
                        /\ ~timed => f[l] = lanePasses[l] /\ g[l] = laneBytes[l]
    BY <2>1, SuccessIsCounted DEF AllSent, AllBytes
  <2>6. /\ SumFunction(lanePasses) \in Nat /\ SumFunction(f) \in Nat /\ SumFunction(lanePasses) <= SumFunction(f)
        /\ SumFunction(laneBytes) \in Nat /\ SumFunction(g) \in Nat /\ SumFunction(laneBytes) <= SumFunction(g)
    BY <2>3, <2>4, <2>5, LaneIsFinite, SumIsMonotonic
  <2>7. ~timed => f = lanePasses /\ g = laneBytes
    BY <2>3, <2>4, <2>5
  <2> QED
    BY <2>2, <2>6, <2>7 DEF CountInv
<1>2. Spec => [](Inductive /\ CountInv)
  <2>1. Inductive /\ [Next]_vars => Inductive'
    BY TypeStep, WaitStep, ErrorStep, PlanStep, BoundStep DEF Inductive
  <2> QED
    BY <2>1, InductiveInit, CountInit, CountStep, PTL DEF Spec
<1> QED
  BY <1>1, <1>2, PTL
=============================================================================
