--------------------------- MODULE OperationPlan ---------------------------
(***************************************************************************)
(* How the workloads of src/benchmark/workload.go plan their operations:   *)
(* sequentialPlan, fsyncPlan and randomPlan place the blocks of the file   *)
(* one by one in the list of the worker that owns them.  The generator     *)
(* seeded with config.RandomSeed is modelled by the choices it may make:   *)
(* any order of the blocks and any arrangement of the read operations.     *)
(***************************************************************************)
EXTENDS Operations, FiniteSets

CONSTANT Inputs  \* the pairs of a kind of plan and a configuration

Kinds == {"read", "write", "fsync", "random"}

ASSUME InputsAssumption ==
  \A input \in Inputs : input.kind \in Kinds /\ ValidConfig(input.config)

VARIABLES
  input,   \* the plan asked for
  placed,  \* blocks already placed
  reads,   \* how many of them are read
  plans,   \* the operations of each worker
  done

vars == <<input, placed, reads, plans, done>>

config == input.config
Worker == 0..(config.Workers - 1)

Init ==
  /\ input \in Inputs
  /\ placed = {}
  /\ reads = 0
  /\ plans = [worker \in 0..(input.config.Workers - 1) |-> << >>]
  /\ done = FALSE

Place(block, write) ==
  /\ block \notin placed
  /\ placed' = placed \cup {block}
  /\ reads' = IF write THEN reads ELSE reads + 1
  /\ plans' = [plans EXCEPT ![workerOf(config, block)] =
                 Append(@, blockOperation(config, block, write))]
  /\ UNCHANGED <<input, done>>

\* sequentialPlan visits the blocks in order; fsyncPlan builds on it.
PlaceNext ==
  /\ input.kind # "random"
  /\ \E block \in Block(config) :
       /\ \A other \in Block(config) : other < block => other \in placed
       /\ Place(block, input.kind # "read")

\* randomPlan: the next block of the permutation, with the next entry of the
\* shuffled readOperations, readCount of which are true.
PlaceRandom ==
  /\ input.kind = "random"
  /\ \E block \in Block(config), write \in BOOLEAN :
       /\ IF write
          THEN Cardinality(placed) - reads < blockCount(config) - readCount(config)
          ELSE reads < readCount(config)
       /\ Place(block, write)

\* Every block is placed; fsyncPlan marks each operation for a sync.
Finish ==
  /\ ~done
  /\ placed = Block(config)
  /\ plans' = IF input.kind = "fsync"
              THEN [worker \in Worker |->
                      [i \in DOMAIN plans[worker] |-> [plans[worker][i] EXCEPT !.sync = TRUE]]]
              ELSE plans
  /\ done' = TRUE
  /\ UNCHANGED <<input, placed, reads>>

Terminated == done /\ UNCHANGED vars

Next == PlaceNext \/ PlaceRandom \/ Finish \/ Terminated

Spec == Init /\ [][Next]_vars

-----------------------------------------------------------------------------
(* Properties *)

\* The variables have their types; every operation has at least one byte and
\* every block belongs to a worker that exists.
TypeOK ==
  /\ input \in Inputs
  /\ placed \subseteq Block(config)
  /\ reads \in Nat
  /\ plans \in [Worker -> Seq(Operation)]
  /\ done \in BOOLEAN

\* An operation of the plan is named by its worker and its place there.
Planned == UNION {{worker} \X DOMAIN plans[worker] : worker \in Worker}
planned(p) == plans[p[1]][p[2]]

bytesOf(operation) == operation.offset .. (operation.offset + operation.size - 1)

\* While the plan grows and when it is complete, no two operations touch the
\* same byte, and none reaches beyond the file: lanes never race on a region.
OperationsAreDisjoint ==
  /\ \A p \in Planned : bytesOf(planned(p)) \subseteq 0..(config.Size - 1)
  /\ \A p, q \in Planned : p # q => bytesOf(planned(p)) \cap bytesOf(planned(q)) = {}

\* A worker's region lies wholly below the region of the next worker.
RegionsAscend ==
  \A p, q \in Planned : p[1] < q[1] => planned(p).offset + planned(p).size <= planned(q).offset

\* The complete plan touches every byte of the file.
PlanCoversFile ==
  done => UNION {bytesOf(planned(p)) : p \in Planned} = 0..(config.Size - 1)

\* The number of reads of a random plan is the requested percentage of the
\* operations, to the nearest operation.
ReadShareIsRounded ==
  done /\ input.kind = "random" =>
    LET share == 100 * Cardinality({p \in Planned : ~planned(p).write})
                   - config.RandomReadPercent * Cardinality(Planned)
    IN  -50 < share /\ share <= 50

\* The lanes of a worker share out its operations: each is dealt exactly once.
LanesShareOutPlan ==
  done =>
    \A p \in Planned :
      LET dealt == [lane \in 0..(config.QueueDepth - 1) |->
                      operationsForLane(plans[p[1]], lane, config.QueueDepth)]
          places == UNION {{lane} \X DOMAIN dealt[lane] : lane \in DOMAIN dealt}
      IN  Cardinality({place \in places : dealt[place[1]][place[2]] = planned(p)}) = 1

\* No worker gets more than one operation more than another.
LoadIsBalanced ==
  done => \A v, w \in Worker : Len(plans[v]) <= Len(plans[w]) + 1
=============================================================================
