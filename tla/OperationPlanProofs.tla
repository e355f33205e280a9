------------------------ MODULE OperationPlanProofs ------------------------
(***************************************************************************)
(* The regions of a plan, for every file, block size and number of workers *)
(* and for every order the random generator may choose.  The inductive     *)
(* invariant ties each planned operation to the block it stands for.       *)
(***************************************************************************)
EXTENDS OperationPlan, OperationsProofs, SequenceTheorems, FiniteSetTheorems

\* The operation planned at p stands for the given block.
StandsFor(p, block) ==
  /\ p[1] = workerOf(config, block)
  /\ planned(p).offset = block * config.BlockSize
  /\ planned(p).size = blockSize(config, block)

\* Each planned operation stands for a placed block, and no two for the same.
PlanInv ==
  /\ \A p \in Planned : \E block \in placed : StandsFor(p, block)
  /\ \A p, q \in Planned : p # q => planned(p).offset # planned(q).offset

Inductive == TypeOK /\ PlanInv

-----------------------------------------------------------------------------
\* The configuration is one that Config.Validate accepts.
LEMMA ConfigIsValid == input \in Inputs => ValidConfig(config)
BY InputsAssumption DEF config

\* The names of planned operations, spelled out.
LEMMA PlannedNames ==
  ASSUME TypeOK
  PROVE  \A p : p \in Planned <=> \E worker \in Worker : \E i \in 1..Len(plans[worker]) : p = <<worker, i>>
<1>1. \A worker \in Worker : DOMAIN plans[worker] = 1..Len(plans[worker])
  OBVIOUS
<1> QED
  BY <1>1 DEF Planned

\* The invariant holds initially.
LEMMA InductiveInit == Init => Inductive
<1> SUFFICES ASSUME Init PROVE Inductive
  OBVIOUS
<1>1. TypeOK
  <2>1. << >> \in Seq(Operation)
    OBVIOUS
  <2>2. plans \in [Worker -> Seq(Operation)]
    BY <2>1 DEF Init, Worker, config
  <2> QED
    BY <2>2 DEF Init, TypeOK
<1>2. Planned = {}
  BY DEF Init, Planned, Worker, config
<1> QED
  BY <1>1, <1>2 DEF Inductive, PlanInv

\* Placing a block appends one operation to its owner's list, and moves no other.
LEMMA PlaceAppends ==
  ASSUME TypeOK, NEW block \in Block(config), NEW write \in BOOLEAN, Place(block, write)
  PROVE  \E new :
           /\ new = <<workerOf(config, block), Len(plans[workerOf(config, block)]) + 1>>
           /\ new \notin Planned /\ Planned' = Planned \cup {new}
           /\ \A p \in Planned : planned(p)' = planned(p)
           /\ planned(new)' = blockOperation(config, block, write)
           /\ plans' \in [Worker -> Seq(Operation)]
           /\ \A worker \in Worker :
                Len(plans'[worker]) = IF worker = new[1] THEN Len(plans[worker]) + 1 ELSE Len(plans[worker])
<1> DEFINE owner == workerOf(config, block)
           operation == blockOperation(config, block, write)
<1>0. PICK new : new = <<owner, Len(plans[owner]) + 1>>
  OBVIOUS
<1>1. ValidConfig(config) /\ config' = config /\ Worker' = Worker
  BY ConfigIsValid DEF TypeOK, Place, config, Worker
<1>2. owner \in Worker /\ operation \in Operation
  BY <1>1, WorkerExists, BlockOperationType DEF Worker
<1>3. plans[owner] \in Seq(Operation) /\ plans' = [plans EXCEPT ![owner] = Append(@, operation)]
  BY <1>2 DEF TypeOK, Place
<1>4. plans' \in [Worker -> Seq(Operation)]
  BY <1>2, <1>3 DEF TypeOK
<1>5. \A worker \in Worker :
        /\ Len(plans[worker]) \in Nat /\ DOMAIN plans[worker] = 1..Len(plans[worker])
        /\ DOMAIN plans'[worker] = 1..Len(plans'[worker])
        /\ Len(plans'[worker]) = IF worker = owner THEN Len(plans[worker]) + 1 ELSE Len(plans[worker])
  <2>1. Len(Append(plans[owner], operation)) = Len(plans[owner]) + 1
    BY <1>2, <1>3
  <2> QED
    BY <1>2, <1>3, <1>4, <2>1 DEF TypeOK
<1>6. new \notin Planned /\ Planned' = Planned \cup {new}
  <2>1. \A p : p \in Planned <=> \E worker \in Worker : \E i \in 1..Len(plans[worker]) : p = <<worker, i>>
    BY <1>5 DEF Planned
  <2>2. \A p : p \in Planned' <=> \E worker \in Worker : \E i \in 1..Len(plans'[worker]) : p = <<worker, i>>
    BY <1>1, <1>5 DEF Planned
  <2>3. ASSUME NEW worker \in Worker, NEW i \in 1..Len(plans'[worker])
        PROVE  <<worker, i>> \in Planned \/ <<worker, i>> = new
    <3>1. i \in 1..Len(plans[worker]) \/ (worker = owner /\ i = Len(plans[owner]) + 1)
      BY <1>5, <2>3
    <3> QED
      BY <1>0, <2>1, <3>1
  <2>4. ASSUME NEW worker \in Worker, NEW i \in 1..Len(plans[worker])
        PROVE  <<worker, i>> \in Planned' /\ <<worker, i>> # new
    <3>1. i \in 1..Len(plans'[worker]) /\ ~(worker = owner /\ i = Len(plans[owner]) + 1)
      BY <1>2, <1>5, <2>4
    <3> QED
      BY <1>0, <2>2, <3>1
  <2>5. new \in Planned'
    <3>1. Len(plans[owner]) + 1 \in 1..Len(plans'[owner])
      BY <1>2, <1>5
    <3> QED
      BY <1>0, <1>2, <2>2, <3>1
  <2> QED
    BY <2>1, <2>2, <2>3, <2>4, <2>5
<1>7. \A p \in Planned : planned(p)' = planned(p)
  <2> SUFFICES ASSUME NEW worker \in Worker, NEW i \in 1..Len(plans[worker])
               PROVE  plans'[worker][i] = plans[worker][i]
    BY PlannedNames DEF planned
  <2> QED
    BY <1>2, <1>3 DEF TypeOK
<1>8. planned(new)' = operation
  <2>1. plans'[owner] = Append(plans[owner], operation)
    BY <1>2, <1>3 DEF TypeOK
  <2>2. Append(plans[owner], operation)[Len(plans[owner]) + 1] = operation
    BY <1>2, <1>3
  <2> QED
    BY <1>0, <2>1, <2>2 DEF planned
<1> QED
  BY <1>0, <1>4, <1>5, <1>6, <1>7, <1>8

\* A new operation stands for a block that no other operation stands for.
LEMMA PlaceStep ==
  ASSUME Inductive, NEW block \in Block(config), NEW write \in BOOLEAN, Place(block, write)
  PROVE  Inductive'
<1> DEFINE operation == blockOperation(config, block, write)
<1>1. ValidConfig(config) /\ config' = config /\ Worker' = Worker
  BY ConfigIsValid DEF Inductive, TypeOK, Place, config, Worker
<1>2. PICK new : /\ new[1] = workerOf(config, block)
                 /\ Planned' = Planned \cup {new}
                 /\ \A p \in Planned : planned(p)' = planned(p)
                 /\ planned(new)' = operation
                 /\ plans' \in [Worker -> Seq(Operation)]
  BY PlaceAppends DEF Inductive
<1>3. TypeOK'
  BY <1>1, <1>2 DEF Inductive, TypeOK, Place
<1>4. StandsFor(new, block)'
  BY <1>1, <1>2 DEF StandsFor, blockOperation
<1>5. \A p \in Planned : \E b \in placed : StandsFor(p, b) /\ StandsFor(p, b)'
  BY <1>1, <1>2 DEF Inductive, PlanInv, StandsFor
<1>6. \A p \in Planned : planned(p).offset # operation.offset
  <2> SUFFICES ASSUME NEW b \in placed PROVE b * config.BlockSize # block * config.BlockSize
    BY DEF Inductive, PlanInv, StandsFor, blockOperation
  <2>1. b \in Block(config) /\ b # block
    BY DEF Inductive, TypeOK, Place
  <2>2. b < block \/ block < b
    BY <2>1, <1>1, BlockBegins DEF Block
  <2>3. blockSize(config, b) > 0 /\ blockSize(config, block) > 0
    BY <1>1, <2>1, OperationFits
  <2> QED
    BY <1>1, <2>1, <2>2, <2>3, BlocksAreDisjoint, BlockBegins, OperationFits
<1>7. PlanInv'
  <2>1. ASSUME NEW p \in Planned'
        PROVE  \E b \in placed' : StandsFor(p, b)'
    <3>1. placed' = placed \cup {block}
      BY DEF Place
    <3> QED
      BY <1>2, <1>4, <1>5, <3>1
  <2>2. ASSUME NEW p \in Planned', NEW q \in Planned', p # q
        PROVE  planned(p)'.offset # planned(q)'.offset
    BY <1>2, <1>6, <2>2 DEF Inductive, PlanInv
  <2> QED
    BY <2>1, <2>2 DEF PlanInv
<1> QED
  BY <1>3, <1>7 DEF Inductive

\* Marking the operations of an fsync plan adds, moves and turns none of them.
LEMMA FinishKeeps ==
  ASSUME TypeOK, Finish
  PROVE  /\ plans' \in [Worker -> Seq(Operation)]
         /\ \A worker \in Worker : Len(plans'[worker]) = Len(plans[worker])
         /\ Planned' = Planned
         /\ \A p \in Planned : /\ planned(p)'.offset = planned(p).offset
                               /\ planned(p)'.size = planned(p).size
                               /\ planned(p)'.write = planned(p).write
<1>1. config' = config /\ Worker' = Worker
  BY DEF Finish, config, Worker
<1>2. /\ plans' \in [Worker -> Seq(Operation)]
      /\ \A worker \in Worker : /\ DOMAIN plans'[worker] = DOMAIN plans[worker]
                                /\ Len(plans'[worker]) = Len(plans[worker])
  <2>1. CASE input.kind # "fsync"
    BY <2>1 DEF TypeOK, Finish
  <2>2. CASE input.kind = "fsync"
    <3>1. ASSUME NEW worker \in Worker
          PROVE  /\ [i \in DOMAIN plans[worker] |-> [plans[worker][i] EXCEPT !.sync = TRUE]] \in Seq(Operation)
                 /\ DOMAIN plans'[worker] = DOMAIN plans[worker]
                 /\ Len(plans'[worker]) = Len(plans[worker])
      <4>1. plans[worker] \in Seq(Operation) /\ DOMAIN plans[worker] = 1..Len(plans[worker])
        BY DEF TypeOK
      <4>2. ASSUME NEW i \in 1..Len(plans[worker])
            PROVE  [plans[worker][i] EXCEPT !.sync = TRUE] \in Operation
        <5>1. PICK operation \in Operation : operation = plans[worker][i]
          BY <4>1
        <5>2. [operation EXCEPT !.sync = TRUE] \in Operation
          BY DEF Operation
        <5> QED
          BY <5>1, <5>2
      <4> QED
        BY <2>2, <4>1, <4>2 DEF Finish
    <3> QED
      BY <2>2, <3>1 DEF Finish
  <2> QED
    BY <2>1, <2>2
<1>3. Planned' = Planned
  BY <1>1, <1>2 DEF Planned
<1>4. ASSUME NEW p \in Planned
      PROVE  /\ planned(p)'.offset = planned(p).offset
             /\ planned(p)'.size = planned(p).size
             /\ planned(p)'.write = planned(p).write
  <2>1. PICK worker \in Worker : \E i \in DOMAIN plans[worker] : p = <<worker, i>>
    BY DEF Planned
  <2>2. PICK i \in DOMAIN plans[worker] : p = <<worker, i>>
    BY <2>1
  <2>3. plans[worker][i] \in Operation
    BY DEF TypeOK
  <2>4. plans'[worker][i] \in {plans[worker][i], [plans[worker][i] EXCEPT !.sync = TRUE]}
    BY DEF Finish
  <2> QED
    BY <2>2, <2>3, <2>4 DEF planned, Operation
<1> QED
  BY <1>2, <1>3, <1>4

\* So the finished plan covers the regions it covered before.
LEMMA FinishStep ==
  ASSUME Inductive, Finish
  PROVE  Inductive'
<1>1. config' = config /\ placed' = placed
  BY DEF Finish, config
<1>2. TypeOK'
  BY <1>1, FinishKeeps DEF Inductive, TypeOK, Finish, Worker
<1>3. PlanInv'
  BY <1>1, FinishKeeps DEF Inductive, PlanInv, StandsFor
<1> QED
  BY <1>2, <1>3 DEF Inductive

\* Every step preserves the invariant.
LEMMA InductiveStep == Inductive /\ [Next]_vars => Inductive'
<1> SUFFICES ASSUME Inductive, [Next]_vars PROVE Inductive'
  OBVIOUS
<1>1. CASE PlaceNext
  <2>1. (input.kind # "read") \in BOOLEAN
    OBVIOUS
  <2> QED
    BY <1>1, <2>1, PlaceStep DEF PlaceNext
<1>2. CASE PlaceRandom
  BY <1>2, PlaceStep DEF PlaceRandom
<1>3. CASE Finish
  BY <1>3, FinishStep
<1>4. CASE UNCHANGED vars
  BY <1>4 DEF vars, Inductive, TypeOK, PlanInv, Planned, planned, StandsFor, Worker, config
<1> QED
  BY <1>1, <1>2, <1>3, <1>4 DEF Next, Terminated

\* Inductive is an invariant of every execution.
THEOREM InductiveInvariant == Spec => []Inductive
<1>1. Init => Inductive
  BY InductiveInit
<1>2. Inductive /\ [Next]_vars => Inductive'
  BY InductiveStep
<1> QED
  BY <1>1, <1>2, PTL DEF Spec

-----------------------------------------------------------------------------
\* The plan's variables keep their types: in particular sequentialPlan and
\* randomPlan index plans[worker] only with workers that exist.
THEOREM TypeCorrect == Spec => []TypeOK
<1>1. Inductive => TypeOK
  BY DEF Inductive
<1> QED
  BY <1>1, InductiveInvariant, PTL

\* Operations that stand for different blocks touch different bytes.
LEMMA InductiveIsDisjoint == Inductive => OperationsAreDisjoint
<1>1. Inductive => OperationsAreDisjoint
  <2> SUFFICES ASSUME Inductive PROVE OperationsAreDisjoint
    OBVIOUS
  <2>1. ValidConfig(config) /\ config.BlockSize \in Nat /\ config.Size \in Nat
    BY ConfigIsValid DEF Inductive, TypeOK, ValidConfig
  <2>2. ASSUME NEW p \in Planned
        PROVE  bytesOf(planned(p)) \subseteq 0..(config.Size - 1)
    <3>1. PICK block \in Block(config) : StandsFor(p, block)
      BY DEF Inductive, PlanInv, TypeOK
    <3>2. /\ planned(p).offset \in Nat /\ planned(p).size \in Nat
          /\ planned(p).offset + planned(p).size <= config.Size
      BY <2>1, <3>1, BlockBegins, OperationFits DEF StandsFor
    <3> QED
      BY <2>1, <3>2 DEF bytesOf
  <2>3. ASSUME NEW p \in Planned, NEW q \in Planned, p # q
        PROVE  bytesOf(planned(p)) \cap bytesOf(planned(q)) = {}
    <3>1. PICK a \in Block(config) : StandsFor(p, a)
      BY DEF Inductive, PlanInv, TypeOK
    <3>2. PICK c \in Block(config) : StandsFor(q, c)
      BY DEF Inductive, PlanInv, TypeOK
    <3>3. a < c \/ c < a
      <4>1. a # c
        BY <2>3, <3>1, <3>2 DEF Inductive, PlanInv, StandsFor
      <4> QED
        BY <2>1, <4>1, BlockBegins DEF Block
    <3>4. /\ planned(p).offset \in Nat /\ planned(p).size \in Nat
          /\ planned(q).offset \in Nat /\ planned(q).size \in Nat
      BY <2>1, <3>1, <3>2, BlockBegins, OperationFits DEF StandsFor
    <3>5. \/ planned(p).offset + planned(p).size <= planned(q).offset
          \/ planned(q).offset + planned(q).size <= planned(p).offset
      BY <2>1, <3>1, <3>2, <3>3, BlocksAreDisjoint DEF StandsFor
    <3> QED
      BY <3>4, <3>5 DEF bytesOf
  <2> QED
    BY <2>2, <2>3 DEF OperationsAreDisjoint
<1> QED
  BY <1>1

\* No two operations of a plan touch the same byte, and none touches a byte
\* beyond the size of the file.
THEOREM PlanIsDisjoint == Spec => []OperationsAreDisjoint
BY InductiveIsDisjoint, InductiveInvariant, PTL

\* Workers own ascending regions.
THEOREM RegionsAreOrdered == Spec => []RegionsAscend
<1>1. Inductive => RegionsAscend
  <2> SUFFICES ASSUME Inductive, NEW p \in Planned, NEW q \in Planned, p[1] < q[1]
               PROVE  planned(p).offset + planned(p).size <= planned(q).offset
    BY DEF RegionsAscend
  <2>1. ValidConfig(config)
    BY ConfigIsValid DEF Inductive, TypeOK
  <2>2. PICK a \in Block(config) : StandsFor(p, a)
    BY DEF Inductive, PlanInv, TypeOK
  <2>3. PICK c \in Block(config) : StandsFor(q, c)
    BY DEF Inductive, PlanInv, TypeOK
  <2>4. a \in Int /\ c \in Int /\ workerOf(config, a) \in Int /\ workerOf(config, c) \in Int
    BY <2>1, BlockBegins, WorkerExists DEF Block
  <2>5. ~ c <= a
    BY <2>1, <2>2, <2>3, <2>4, WorkerMonotonic DEF StandsFor
  <2> QED
    BY <2>1, <2>2, <2>3, <2>4, <2>5, BlocksAreDisjoint DEF StandsFor
<1> QED
  BY <1>1, InductiveInvariant, PTL

-----------------------------------------------------------------------------
(* What a complete plan amounts to                                         *)

Reads == {p \in Planned : ~planned(p).write}
Owned(worker) == {block \in placed : workerOf(config, block) = worker}

\* Every placed block has its operation; the operations, those of each worker
\* and the reads among them are as many as the blocks placed so far demand.
CountInv ==
  /\ \A block \in placed : \E p \in Planned : StandsFor(p, block)
  /\ IsFiniteSet(Planned) /\ Cardinality(Planned) = Cardinality(placed)
  /\ \A worker \in Worker : Len(plans[worker]) = Cardinality(Owned(worker))
  /\ reads = Cardinality(Reads)
  /\ input.kind = "random" =>
       /\ reads <= readCount(config)
       /\ Cardinality(placed) - reads <= blockCount(config) - readCount(config)
  /\ done => placed = Block(config)

\* There are finitely many blocks to place, and to own.
LEMMA PlacedIsFinite ==
  ASSUME TypeOK
  PROVE  /\ IsFiniteSet(Block(config)) /\ Cardinality(Block(config)) = blockCount(config)
         /\ IsFiniteSet(placed) /\ Cardinality(placed) \in Nat
         /\ \A worker : IsFiniteSet(Owned(worker))
<1>1. blockCount(config) \in Nat \ {0}
  BY ConfigIsValid, BlockBegins DEF TypeOK
<1>2. IsFiniteSet(Block(config)) /\ Cardinality(Block(config)) = blockCount(config)
  BY <1>1, FS_Interval DEF Block
<1>3. IsFiniteSet(placed) /\ Cardinality(placed) \in Nat
  BY <1>2, FS_Subset, FS_CardinalityType DEF TypeOK
<1>4. \A worker : Owned(worker) \in SUBSET placed
  BY DEF Owned
<1> QED
  BY <1>2, <1>3, <1>4, FS_Subset

\* Before the first block is placed, nothing is planned.
LEMMA CountInit == Init => CountInv
<1> SUFFICES ASSUME Init PROVE CountInv
  OBVIOUS
<1>1. TypeOK
  BY InductiveInit DEF Inductive
<1>2. Planned = {} /\ placed = {} /\ Reads = {} /\ \A worker : Owned(worker) = {}
  BY DEF Init, Planned, Worker, config, Reads, Owned
<1>3. \A worker \in Worker : Len(plans[worker]) = 0
  BY DEF Init, Worker, config
<1>4. /\ readCount(config) \in Nat /\ blockCount(config) \in Nat
      /\ readCount(config) <= blockCount(config)
  BY <1>1, ReadCountFits, BlockBegins, ConfigIsValid DEF TypeOK
<1>5. IsFiniteSet({}) /\ Cardinality({}) = 0
  BY FS_EmptySet
<1>6. \A worker \in Worker : Len(plans[worker]) = Cardinality(Owned(worker))
  BY <1>2, <1>3, <1>5
<1>7. reads = 0 /\ Cardinality(Reads) = 0 /\ ~done
  BY <1>2, <1>5 DEF Init
<1>8. reads <= readCount(config) /\ Cardinality(placed) - reads <= blockCount(config) - readCount(config)
  BY <1>2, <1>4, <1>5, <1>7
<1> QED
  BY <1>2, <1>5, <1>6, <1>7, <1>8 DEF CountInv

\* A placed block counts once: for the plan, for its owner, and as a read or a
\* write.  A random plan places no more of either than it is to have.
LEMMA PlaceCounts ==
  ASSUME Inductive, CountInv, ~done,
         NEW block \in Block(config), NEW write \in BOOLEAN, Place(block, write),
         input.kind = "random" =>
           IF write THEN Cardinality(placed) - reads < blockCount(config) - readCount(config)
           ELSE reads < readCount(config)
  PROVE  CountInv'
<1>1. /\ ValidConfig(config) /\ config' = config /\ Worker' = Worker /\ TypeOK
      /\ block \notin placed /\ placed' = placed \cup {block}
      /\ reads' = IF write THEN reads ELSE reads + 1
      /\ done' = done /\ input' = input
  BY ConfigIsValid DEF Inductive, TypeOK, Place, config, Worker
<1>2. PICK new : /\ new[1] = workerOf(config, block)
                 /\ new \notin Planned /\ Planned' = Planned \cup {new}
                 /\ \A p \in Planned : planned(p)' = planned(p)
                 /\ planned(new)' = blockOperation(config, block, write)
                 /\ \A worker \in Worker :
                      Len(plans'[worker]) = IF worker = new[1] THEN Len(plans[worker]) + 1 ELSE Len(plans[worker])
  BY PlaceAppends, <1>1
<1>3. \A b \in placed' : \E p \in Planned' : StandsFor(p, b)'
  <2>1. StandsFor(new, block)'
    BY <1>1, <1>2 DEF StandsFor, blockOperation
  <2>2. \A b \in placed : \E p \in Planned : StandsFor(p, b) /\ StandsFor(p, b)'
    BY <1>1, <1>2 DEF CountInv, StandsFor
  <2> QED
    BY <1>1, <1>2, <2>1, <2>2
<1>4. IsFiniteSet(Planned') /\ Cardinality(Planned') = Cardinality(placed') /\ Cardinality(placed') = Cardinality(placed) + 1
  <2>1. IsFiniteSet(placed) /\ IsFiniteSet(Planned) /\ Cardinality(Planned) = Cardinality(placed)
    BY <1>1, PlacedIsFinite DEF CountInv
  <2>2. Cardinality(placed \cup {block}) = Cardinality(placed) + 1
    BY <1>1, <2>1, FS_AddElement
  <2>3. IsFiniteSet(Planned \cup {new}) /\ Cardinality(Planned \cup {new}) = Cardinality(Planned) + 1
    BY <1>2, <2>1, FS_AddElement
  <2> QED
    BY <1>1, <1>2, <2>1, <2>2, <2>3
<1>5. ASSUME NEW worker \in Worker
      PROVE  Len(plans'[worker]) = Cardinality(Owned(worker)')
  <2>1. Owned(worker)' = IF worker = new[1] THEN Owned(worker) \cup {block} ELSE Owned(worker)
    BY <1>1, <1>2 DEF Owned
  <2>2. block \notin Owned(worker) /\ IsFiniteSet(Owned(worker))
    BY <1>1, PlacedIsFinite DEF Owned
  <2>3. Cardinality(Owned(worker) \cup {block}) = Cardinality(Owned(worker)) + 1
    BY <2>2, FS_AddElement
  <2>4. Len(plans[worker]) = Cardinality(Owned(worker))
    BY DEF CountInv
  <2> QED
    BY <1>2, <2>1, <2>3, <2>4
<1>6. reads' = Cardinality(Reads')
  <2>1. Reads' = IF write THEN Reads ELSE Reads \cup {new}
    BY <1>2 DEF Reads, blockOperation
  <2>2. new \notin Reads /\ Reads \in SUBSET Planned
    BY <1>2 DEF Reads
  <2>3. IsFiniteSet(Reads)
    BY <2>2, FS_Subset DEF CountInv
  <2> QED
    BY <1>1, <2>1, <2>2, <2>3, FS_AddElement DEF CountInv
<1>7. input.kind = "random" =>
        /\ reads' <= readCount(config)
        /\ Cardinality(placed') - reads' <= blockCount(config) - readCount(config)
  <2>1. /\ reads \in Nat /\ Cardinality(placed) \in Nat
        /\ readCount(config) \in Nat /\ blockCount(config) \in Nat
    BY <1>1, PlacedIsFinite, ReadCountFits, BlockBegins DEF TypeOK
  <2> QED
    BY <1>1, <1>4, <2>1 DEF CountInv
<1> QED
  BY <1>1, <1>3, <1>4, <1>5, <1>6, <1>7 DEF CountInv

\* The plan is finished when every block is placed.
LEMMA FinishCounts ==
  ASSUME Inductive, CountInv, Finish
  PROVE  CountInv'
<1>1. /\ config' = config /\ Worker' = Worker /\ TypeOK
      /\ placed' = placed /\ placed = Block(config) /\ reads' = reads /\ input' = input
  BY DEF Inductive, Finish, config, Worker
<1>2. Reads' = Reads /\ \A worker : Owned(worker)' = Owned(worker)
  BY <1>1, FinishKeeps DEF Reads, Owned
<1>3. \A block \in placed' : \E p \in Planned' : StandsFor(p, block)'
  BY <1>1, FinishKeeps DEF CountInv, StandsFor
<1> QED
  BY <1>1, <1>2, <1>3, FinishKeeps DEF CountInv

\* Nothing is placed once the plan is finished, because every block is placed.
LEMMA CountStep == Inductive /\ CountInv /\ [Next]_vars => CountInv'
<1> SUFFICES ASSUME Inductive, CountInv, [Next]_vars PROVE CountInv'
  OBVIOUS
<1>1. ASSUME NEW block \in Block(config), NEW write, Place(block, write)
      PROVE  ~done
  BY <1>1 DEF Place, CountInv
<1>2. CASE PlaceNext
  <2>1. (input.kind # "read") \in BOOLEAN /\ input.kind # "random"
    BY <1>2 DEF PlaceNext
  <2> QED
    BY <1>1, <1>2, <2>1, PlaceCounts DEF PlaceNext
<1>3. CASE PlaceRandom
  BY <1>1, <1>3, PlaceCounts DEF PlaceRandom
<1>4. CASE Finish
  BY <1>4, FinishCounts
<1>5. CASE UNCHANGED vars
  BY <1>5 DEF vars, CountInv, Planned, planned, StandsFor, Worker, config, Reads, Owned
<1> QED
  BY <1>2, <1>3, <1>4, <1>5 DEF Next, Terminated

\* CountInv is an invariant of every execution.
THEOREM CountInvariant == Spec => [](Inductive /\ CountInv)
<1>1. Inductive /\ CountInv /\ [Next]_vars => CountInv'
  BY CountStep
<1>2. Inductive /\ CountInv /\ [Next]_vars => Inductive'
  BY InductiveStep
<1> QED
  BY <1>1, <1>2, InductiveInit, CountInit, PTL DEF Spec

-----------------------------------------------------------------------------
(* The properties of a complete plan                                       *)

\* The operations of a complete plan reach every byte of the file.
THEOREM PlanIsComplete == Spec => []PlanCoversFile
<1>1. Inductive /\ CountInv => PlanCoversFile
  <2> SUFFICES ASSUME Inductive, CountInv, done
               PROVE  UNION {bytesOf(planned(p)) : p \in Planned} = 0..(config.Size - 1)
    BY DEF PlanCoversFile
  <2>1. ValidConfig(config) /\ placed = Block(config)
    BY ConfigIsValid DEF Inductive, TypeOK, CountInv
  <2>2. ASSUME NEW p \in Planned
        PROVE  bytesOf(planned(p)) \subseteq 0..(config.Size - 1)
    BY InductiveIsDisjoint DEF OperationsAreDisjoint
  <2>3. ASSUME NEW byte \in 0..(config.Size - 1)
        PROVE  \E p \in Planned : byte \in bytesOf(planned(p))
    <3>1. PICK block \in Block(config) :
            byte \in (block * config.BlockSize)..(block * config.BlockSize + blockSize(config, block) - 1)
      BY <2>1, BlocksCover
    <3>2. PICK p \in Planned : StandsFor(p, block)
      BY <2>1 DEF CountInv
    <3> QED
      BY <3>1, <3>2 DEF StandsFor, bytesOf
  <2> QED
    BY <2>2, <2>3
<1> QED
  BY <1>1, CountInvariant, PTL

\* A complete random plan reads the requested percentage of its operations, to
\* the nearest operation.
THEOREM ReadShareIsExact == Spec => []ReadShareIsRounded
<1>1. Inductive /\ CountInv => ReadShareIsRounded
  <2> SUFFICES ASSUME Inductive, CountInv, done, input.kind = "random"
               PROVE  LET share == 100 * Cardinality(Reads) - config.RandomReadPercent * Cardinality(Planned)
                      IN  -50 < share /\ share <= 50
    BY DEF ReadShareIsRounded, Reads
  <2>1. /\ ValidConfig(config) /\ TypeOK /\ reads \in Nat
        /\ blockCount(config) \in Nat /\ readCount(config) \in Nat
    BY ConfigIsValid, BlockBegins, ReadCountFits DEF Inductive, TypeOK
  <2>2. Cardinality(placed) = blockCount(config) /\ Cardinality(Planned) = blockCount(config) /\ Cardinality(Reads) = reads
    BY <2>1, PlacedIsFinite DEF CountInv
  <2>3. reads <= readCount(config) /\ blockCount(config) - reads <= blockCount(config) - readCount(config)
    BY <2>2 DEF CountInv
  <2>4. reads = readCount(config)
    BY <2>1, <2>3
  <2> QED
    BY <2>1, <2>2, <2>4, ReadCountFits
<1> QED
  BY <1>1, CountInvariant, PTL

\* The lanes of a worker are dealt each of its operations once.
THEOREM LanesSharePlan == Spec => []LanesShareOutPlan
<1>1. Inductive => LanesShareOutPlan
  <2> SUFFICES ASSUME Inductive, NEW p \in Planned
               PROVE  LET dealt == [lane \in 0..(config.QueueDepth - 1) |->
                                      operationsForLane(plans[p[1]], lane, config.QueueDepth)]
                          places == UNION {{lane} \X DOMAIN dealt[lane] : lane \in DOMAIN dealt}
                      IN  Cardinality({place \in places : dealt[place[1]][place[2]] = planned(p)}) = 1
    BY DEF LanesShareOutPlan
  <2> DEFINE q == config.QueueDepth
             Lane == 0..(q - 1)
  <2>0. PICK worker \in Worker : \E i \in 1..Len(plans[worker]) : p = <<worker, i>>
    BY PlannedNames DEF Inductive
  <2>1. PICK i \in 1..Len(plans[worker]) : p = <<worker, i>>
    BY <2>0
  <2>2. PICK operations \in Seq(Operation) : operations = plans[worker]
    BY DEF Inductive, TypeOK
  <2>3. q \in Nat \ {0} /\ i \in 1..Len(operations) /\ p[1] = worker /\ planned(p) = operations[i]
    BY <2>1, <2>2, ConfigIsValid DEF Inductive, TypeOK, ValidConfig, planned
  <2>4. ASSUME NEW j \in 1..Len(operations), operations[j] = operations[i]
        PROVE  j = i
    <3>1. PICK r : r = <<worker, j>>
      OBVIOUS
    <3>2. r \in Planned /\ planned(r) = operations[j]
      BY <2>2, <3>1, PlannedNames DEF Inductive, planned
    <3>3. r = p
      BY <2>3, <2>4, <3>2 DEF Inductive, PlanInv
    <3> QED
      BY <2>1, <3>1, <3>3
  <2> DEFINE dealt == [lane \in Lane |-> operationsForLane(operations, lane, q)]
             places == UNION {{lane} \X DOMAIN dealt[lane] : lane \in DOMAIN dealt}
             found == {place \in places : dealt[place[1]][place[2]] = operations[i]}
  <2>5. PICK lane \in Lane :
           \E k \in DOMAIN operationsForLane(operations, lane, q) : DealtOnlyAt(lane, k, i, q)
    <3>1. Len(operations) \in Nat
      OBVIOUS
    <3> QED
      BY <2>3, <3>1, LanesPartition
  <2>6. PICK k \in DOMAIN operationsForLane(operations, lane, q) :
           /\ dealtIndex(lane, k, q) = i
           /\ \A l \in Lane, m \in Nat \ {0} : dealtIndex(l, m, q) = i => l = lane /\ m = k
    BY <2>5 DEF DealtOnlyAt
  <2>7. \A place : place \in places <=> \E l \in Lane : \E m \in DOMAIN operationsForLane(operations, l, q) : place = <<l, m>>
    <3>1. DOMAIN dealt = Lane /\ \A l \in Lane : dealt[l] = operationsForLane(operations, l, q)
      OBVIOUS
    <3> HIDE DEF dealt, Lane, q
    <3> QED
      BY <3>1
  <2>8. <<lane, k>> \in found
    <3>1. <<lane, k>> \in places
      BY <2>7
    <3>2. operationsForLane(operations, lane, q)[k] = operations[i]
      BY <2>3, <2>6, DealtIndexExists
    <3> QED
      BY <3>1, <3>2
  <2>9. ASSUME NEW place \in found
        PROVE  place = <<lane, k>>
    <3>1. PICK l \in Lane : \E m \in DOMAIN operationsForLane(operations, l, q) : place = <<l, m>>
      BY <2>7
    <3>2. PICK m \in DOMAIN operationsForLane(operations, l, q) : place = <<l, m>>
      BY <3>1
    <3>3. operationsForLane(operations, l, q)[m] = operations[i]
      BY <3>2
    <3>4. /\ m \in Nat \ {0}
          /\ dealtIndex(l, m, q) \in 1..Len(operations)
          /\ operations[dealtIndex(l, m, q)] = operations[i]
      BY <2>3, <3>3, DealtIndexExists
    <3>5. dealtIndex(l, m, q) = i
      BY <2>4, <3>4
    <3> QED
      BY <2>6, <3>2, <3>4, <3>5
  <2>10. found = {<<lane, k>>}
    BY <2>8, <2>9
  <2>11. Cardinality(found) = 1
    BY <2>10, FS_Singleton
  <2> QED
    BY <2>2, <2>3, <2>11
<1> QED
  BY <1>1, InductiveInvariant, PTL

\* A complete plan gives no worker two operations more than another.
THEOREM WorkersAreBalanced == Spec => []LoadIsBalanced
<1>1. Inductive /\ CountInv => LoadIsBalanced
  <2> SUFFICES ASSUME Inductive, CountInv, done, NEW v \in Worker, NEW w \in Worker
               PROVE  Len(plans[v]) <= Len(plans[w]) + 1
    BY DEF LoadIsBalanced
  <2>1. ValidConfig(config) /\ placed = Block(config) /\ config.Workers \in Nat \ {0}
    BY ConfigIsValid DEF Inductive, TypeOK, CountInv, ValidConfig
  <2>2. ASSUME NEW worker \in Worker
        PROVE  /\ firstBlock(config, worker) \in Nat /\ firstBlock(config, worker + 1) \in Nat
               /\ Len(plans[worker]) = firstBlock(config, worker + 1) - firstBlock(config, worker)
    <3>1. worker \in 0..(config.Workers - 1) /\ worker \in Nat /\ worker + 1 \in Nat
      BY <2>1 DEF Worker
    <3>2. /\ firstBlock(config, worker) \in Nat /\ firstBlock(config, worker + 1) \in Nat
          /\ firstBlock(config, worker) <= firstBlock(config, worker + 1)
      BY <2>1, <3>1, FirstBlock, RegionsAreEven
    <3>3. Owned(worker) = firstBlock(config, worker)..(firstBlock(config, worker + 1) - 1)
      BY <2>1, <3>1, RegionIsInterval DEF Owned
    <3>4. Cardinality(Owned(worker)) = firstBlock(config, worker + 1) - firstBlock(config, worker)
      BY <3>2, <3>3, FS_Interval
    <3> QED
      BY <3>2, <3>4 DEF CountInv
  <2>3. v \in 0..(config.Workers - 1) /\ w \in 0..(config.Workers - 1)
    BY DEF Worker
  <2> QED
    BY <2>1, <2>2, <2>3, RegionsAreEven
<1> QED
  BY <1>1, CountInvariant, PTL
=============================================================================
