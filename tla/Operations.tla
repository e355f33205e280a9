----------------------------- MODULE Operations -----------------------------
(***************************************************************************)
(* The arithmetic that cuts a test file into block operations, gives each  *)
(* block to a worker and deals a worker's operations to its queue lanes    *)
(* (src/benchmark/workload.go).  A config is a record with at least the    *)
(* fields Size, BlockSize, Workers, QueueDepth and RandomReadPercent, as   *)
(* normalized and validated by src/benchmark/config.go.                    *)
(*                                                                         *)
(* A definition marked "faulty" is a plausible mistake in the one below    *)
(* it, which the properties of OperationPlan reject.                       *)
(***************************************************************************)
EXTENDS Integers, Sequences

Operation == [offset : Nat, size : Nat \ {0}, write : BOOLEAN, sync : BOOLEAN]

\* What Config.Validate accepts, after normalized() has replaced the zero
\* workers and queue depth by one.
ValidConfig(config) ==
  /\ config.Size \in Nat \ {0}
  /\ config.BlockSize \in 1..config.Size
  /\ config.Workers \in Nat \ {0}
  /\ config.QueueDepth \in Nat \ {0}
  /\ config.RandomReadPercent \in 0..100

\* Faulty: one block too many when the size is a multiple of the block size.
blockCountExtra(config) == 1 + config.Size \div config.BlockSize

\* Faulty: the short last block is forgotten.
blockCountFull(config) == config.Size \div config.BlockSize

blockCount(config) == 1 + (config.Size - 1) \div config.BlockSize

Block(config) == 0..(blockCount(config) - 1)

\* Faulty: the last operation is not cut at the end of the file.
blockSizeFull(config, block) == config.BlockSize

\* The last block may be short.
blockSize(config, block) ==
  LET remaining == config.Size - block * config.BlockSize
  IN  IF remaining < config.BlockSize THEN remaining ELSE config.BlockSize

blockOperation(config, block, write) ==
  [offset |-> block * config.BlockSize,
   size   |-> blockSize(config, block),
   write  |-> write,
   sync   |-> FALSE]

\* Faulty: blocks are dealt to the workers in turn.
workerOfInTurn(config, block) == block % config.Workers

\* Faulty: regions of a rounded-up number of blocks starve the last worker.
workerOfByChunk(config, block) ==
  block \div (1 + (blockCount(config) - 1) \div config.Workers)

\* Consecutive blocks go to the same worker: worker w owns one contiguous region.
workerOf(config, block) == (block * config.Workers) \div blockCount(config)

\* Faulty: the number of reads is rounded down.
readCountDown(config) == (blockCount(config) * config.RandomReadPercent) \div 100

readCount(config) ==
  (blockCount(config) * config.RandomReadPercent + 50) \div 100

\* Faulty: an incomplete last stride is dropped.
operationsForLaneFull(operations, lane, queueDepth) ==
  [i \in 1..(Len(operations) \div queueDepth) |-> operations[lane + 1 + (i - 1) * queueDepth]]

\* Lane number lane of queueDepth takes every queueDepth-th operation.  The
\* loop in the code visits the indexes lane, lane + queueDepth, ... below
\* Len(operations); count is how often it runs.
operationsForLane(operations, lane, queueDepth) ==
  LET count == (Len(operations) + queueDepth - 1 - lane) \div queueDepth
  IN  [i \in 1..count |-> operations[lane + 1 + (i - 1) * queueDepth]]
=============================================================================
