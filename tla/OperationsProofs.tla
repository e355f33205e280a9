-------------------------- MODULE OperationsProofs --------------------------
(***************************************************************************)
(* What the operators of Operations return, for every size, block size,    *)
(* number of workers and queue depth.                                      *)
(***************************************************************************)
EXTENDS Operations, TLAPS

\* Division rounds down: the facts about \div the lemmas below rest on.
LEMMA Division ==
  ASSUME NEW a \in Nat, NEW b \in Nat \ {0}
  PROVE  /\ a \div b \in Nat
         /\ (a \div b) * b <= a
         /\ a < ((a \div b) + 1) * b
  OBVIOUS

\* Multiplication by a natural number is monotonic.
LEMMA TimesMonotonic ==
  ASSUME NEW a \in Int, NEW b \in Int, NEW c \in Nat, a <= b
  PROVE  a * c <= b * c
  OBVIOUS

\* operationsForLane deals each lane a sequence of operations of its worker,
\* and every index it reads exists.
LEMMA LaneIsDealtOperations ==
  ASSUME NEW S, NEW operations \in Seq(S),
         NEW queueDepth \in Nat \ {0}, NEW lane \in 0..(queueDepth - 1)
  PROVE  operationsForLane(operations, lane, queueDepth) \in Seq(S)
<1> DEFINE n == Len(operations)
           count == (n + queueDepth - 1 - lane) \div queueDepth
<1>1. count \in Nat /\ count * queueDepth <= n + queueDepth - 1 - lane
  <2>1. n + queueDepth - 1 - lane \in Nat
    OBVIOUS
  <2> QED
    BY <2>1, Division
<1>2. ASSUME NEW i \in 1..count
      PROVE  lane + 1 + (i - 1) * queueDepth \in 1..n
  <2>1. (i - 1) * queueDepth <= (count - 1) * queueDepth
    <3>1. count \in Nat /\ i - 1 <= count - 1 /\ i - 1 \in Int /\ count - 1 \in Int
      BY <1>1
    <3> QED
      BY <3>1, TimesMonotonic
  <2>2. (count - 1) * queueDepth = count * queueDepth - queueDepth
    BY <1>1
  <2>3. (i - 1) * queueDepth \in Nat
    OBVIOUS
  <2> QED
    BY <1>1, <2>1, <2>2, <2>3
<1>3. \A i \in 1..count : operations[lane + 1 + (i - 1) * queueDepth] \in S
  BY <1>2
<1>4. operationsForLane(operations, lane, queueDepth) \in [1..count -> S]
  BY <1>3 DEF operationsForLane
<1> QED
  BY <1>1, <1>4

\* Division is monotonic.
LEMMA DivisionMonotonic ==
  ASSUME NEW a \in Nat, NEW c \in Nat, NEW b \in Nat \ {0}, a <= c
  PROVE  a \div b <= c \div b
<1>1. a \div b \in Nat /\ c \div b \in Nat /\ (a \div b) * b <= a /\ c < ((c \div b) + 1) * b
  BY Division
<1>2. CASE (c \div b) + 1 <= a \div b
  <2>1. ((c \div b) + 1) * b <= (a \div b) * b
    BY <1>1, <1>2, TimesMonotonic
  <2> QED
    BY <1>1, <2>1
<1> QED
  BY <1>1, <1>2

\* There is at least one block, and every block begins within the file.
LEMMA BlockBegins ==
  ASSUME NEW config, ValidConfig(config)
  PROVE  /\ blockCount(config) \in Nat \ {0}
         /\ \A block \in Block(config) :
              block * config.BlockSize \in Nat /\ block * config.BlockSize < config.Size
<1> DEFINE b == config.BlockSize
           last == (config.Size - 1) \div b
<1>1. config.Size - 1 \in Nat /\ b \in Nat \ {0} /\ config.Size \in Nat
  BY DEF ValidConfig
<1>2. last \in Nat /\ last * b <= config.Size - 1
  BY <1>1, Division
<1>3. blockCount(config) = 1 + last
  BY DEF blockCount
<1>4. ASSUME NEW block \in 0..last
      PROVE  block * b \in Nat /\ block * b < config.Size
  <2>1. block * b <= last * b
    BY <1>1, <1>2, TimesMonotonic
  <2>2. block * b \in Nat
    BY <1>1
  <2> QED
    BY <1>1, <1>2, <2>1, <2>2
<1> QED
  BY <1>2, <1>3, <1>4 DEF Block

\* An operation has at least one byte, fits in a block and ends within the file.
LEMMA OperationFits ==
  ASSUME NEW config, ValidConfig(config), NEW block \in Block(config)
  PROVE  /\ blockSize(config, block) \in 1..config.BlockSize
         /\ block * config.BlockSize + blockSize(config, block) <= config.Size
BY BlockBegins DEF ValidConfig, blockSize

\* What blockOperation returns is an operation.
LEMMA BlockOperationType ==
  ASSUME NEW config, ValidConfig(config), NEW block \in Block(config), NEW write \in BOOLEAN
  PROVE  blockOperation(config, block, write) \in Operation
<1>1. config.BlockSize \in Nat
  BY DEF ValidConfig
<1> QED
  BY <1>1, BlockBegins, OperationFits DEF blockOperation, Operation

\* Different blocks are different regions of the file.
LEMMA BlocksAreDisjoint ==
  ASSUME NEW config, ValidConfig(config), NEW a \in Block(config), NEW c \in Block(config), a < c
  PROVE  a * config.BlockSize + blockSize(config, a) <= c * config.BlockSize
<1> DEFINE b == config.BlockSize
<1>1. b \in Nat /\ a \in Int /\ c \in Int /\ a + 1 \in Int
  BY BlockBegins DEF ValidConfig, Block
<1>2. (a + 1) * b <= c * b
  BY <1>1, TimesMonotonic
<1>3. (a + 1) * b = a * b + b
  BY <1>1
<1>4. blockSize(config, a) \in 1..b
  BY OperationFits
<1> QED
  BY <1>1, <1>2, <1>3, <1>4

\* Every block belongs to a worker that exists.
LEMMA WorkerExists ==
  ASSUME NEW config, ValidConfig(config), NEW block \in Block(config)
  PROVE  workerOf(config, block) \in 0..(config.Workers - 1)
<1> DEFINE n == blockCount(config)
           w == config.Workers
           owner == (block * w) \div n
<1>1. n \in Nat \ {0} /\ w \in Nat \ {0} /\ block \in Nat /\ block <= n - 1
  BY BlockBegins DEF ValidConfig, Block
<1>2. block * w \in Nat
  BY <1>1
<1>3. owner \in Nat /\ owner * n <= block * w
  BY <1>1, <1>2, Division
<1>4. block * w <= (n - 1) * w
  BY <1>1, TimesMonotonic
<1>5. (n - 1) * w = n * w - w /\ n * w = w * n
  BY <1>1
<1>6. owner * n < w * n
  BY <1>1, <1>2, <1>3, <1>4, <1>5
<1>7. CASE w <= owner
  <2>1. w * n <= owner * n
    BY <1>1, <1>3, <1>7, TimesMonotonic
  <2> QED
    BY <1>1, <1>3, <1>6, <2>1
<1> QED
  BY <1>1, <1>3, <1>7 DEF workerOf

\* Workers own regions in the order of their numbers.
LEMMA WorkerMonotonic ==
  ASSUME NEW config, ValidConfig(config), NEW a \in Block(config), NEW c \in Block(config), a <= c
  PROVE  workerOf(config, a) <= workerOf(config, c)
<1> DEFINE n == blockCount(config)
           w == config.Workers
<1>1. n \in Nat \ {0} /\ w \in Nat /\ a \in Nat /\ c \in Nat
  BY BlockBegins DEF ValidConfig, Block
<1>2. a * w \in Nat /\ c * w \in Nat /\ a * w <= c * w
  BY <1>1, TimesMonotonic
<1> QED
  BY <1>1, <1>2, DivisionMonotonic DEF workerOf

\* A plan is to have no more reads than operations, and as many as the
\* requested percentage, to the nearest operation.
LEMMA ReadCountFits ==
  ASSUME NEW config, ValidConfig(config)
  PROVE  /\ readCount(config) \in Nat
         /\ readCount(config) <= blockCount(config)
         /\ LET share == 100 * readCount(config) - config.RandomReadPercent * blockCount(config)
            IN  -50 < share /\ share <= 50
<1> DEFINE n == blockCount(config)
           percent == config.RandomReadPercent
           r == (n * percent + 50) \div 100
<1>1. n \in Nat /\ percent \in Nat /\ percent <= 100
  BY BlockBegins DEF ValidConfig
<1>2. n * percent \in Nat /\ percent * n = n * percent /\ n * percent <= n * 100
  BY <1>1, TimesMonotonic
<1>3. r \in Nat /\ r * 100 <= n * percent + 50 /\ n * percent + 50 < (r + 1) * 100
  BY <1>2, Division
<1>4. r <= n
  BY <1>1, <1>2, <1>3
<1>5. LET share == 100 * r - percent * n IN -50 < share /\ share <= 50
  BY <1>1, <1>2, <1>3
<1> QED
  BY <1>3, <1>4, <1>5 DEF readCount

\* Every byte of the file lies in the region of a block.
LEMMA BlocksCover ==
  ASSUME NEW config, ValidConfig(config), NEW byte \in 0..(config.Size - 1)
  PROVE  \E block \in Block(config) :
           byte \in (block * config.BlockSize)..(block * config.BlockSize + blockSize(config, block) - 1)
<1> DEFINE b == config.BlockSize
           block == byte \div b
<1>1. config.Size \in Nat \ {0} /\ b \in Nat \ {0} /\ byte \in Nat /\ byte <= config.Size - 1 /\ config.Size - 1 \in Nat
  BY DEF ValidConfig
<1>2. block \in Nat /\ block * b <= byte /\ byte < (block + 1) * b
  BY <1>1, Division
<1>3. block \in Block(config)
  <2>1. block <= (config.Size - 1) \div b /\ (config.Size - 1) \div b \in Nat
    BY <1>1, DivisionMonotonic, Division
  <2> QED
    BY <1>2, <2>1 DEF Block, blockCount
<1>4. (block + 1) * b = block * b + b /\ block * b \in Nat
  BY <1>1, <1>2
<1>5. byte < block * b + blockSize(config, block)
  BY <1>1, <1>2, <1>4 DEF blockSize
<1>6. blockSize(config, block) \in Nat
  BY <1>1, <1>3, OperationFits
<1> HIDE DEF block, b
<1>7. byte \in (block * b)..(block * b + blockSize(config, block) - 1)
  BY <1>1, <1>2, <1>4, <1>5, <1>6
<1> QED
  BY <1>3, <1>7 DEF b

-----------------------------------------------------------------------------
(* How operations are shared out                                           *)

\* The operation at place k of a lane is this one of its worker.
dealtIndex(lane, k, queueDepth) == lane + 1 + (k - 1) * queueDepth

\* Operation i is dealt to this lane at place k, and nowhere else.
DealtOnlyAt(lane, k, i, queueDepth) ==
  /\ dealtIndex(lane, k, queueDepth) = i
  /\ \A l \in 0..(queueDepth - 1), m \in Nat \ {0} :
       dealtIndex(l, m, queueDepth) = i => l = lane /\ m = k

\* Every operation of a worker is dealt to one lane, at one place.
LEMMA LanesPartition ==
  ASSUME NEW operations, Len(operations) \in Nat, NEW queueDepth \in Nat \ {0}, NEW i \in 1..Len(operations)
  PROVE  \E lane \in 0..(queueDepth - 1) :
           \E k \in DOMAIN operationsForLane(operations, lane, queueDepth) : DealtOnlyAt(lane, k, i, queueDepth)
<1> DEFINE q == queueDepth
           row == (i - 1) \div q
           lane == (i - 1) - row * q
           count == (Len(operations) + q - 1 - lane) \div q
<1>1. i - 1 \in Nat /\ q \in Nat \ {0} /\ Len(operations) \in Nat /\ i <= Len(operations)
  OBVIOUS
<1>2. row \in Nat /\ row * q <= i - 1 /\ i - 1 < (row + 1) * q /\ row * q \in Nat
  BY <1>1, Division
<1>3. lane \in 0..(q - 1)
  BY <1>1, <1>2
<1>4. row + 1 \in 1..count
  <2>1. Len(operations) + q - 1 - lane \in Nat
    BY <1>1, <1>3
  <2>2. count \in Nat /\ Len(operations) + q - 1 - lane < (count + 1) * q
    BY <1>1, <2>1, Division
  <2>3. (count + 1) * q = count * q + q /\ count * q \in Nat
    BY <1>1, <2>2
  <2> HIDE DEF count, lane, row
  <2>4. i - 1 - lane < count * q
    BY <1>1, <1>3, <2>2, <2>3
  <2>5. i - 1 - lane = row * q
    BY <1>1, <1>2 DEF lane
  <2>6. ~(count <= row)
    <3>1. CASE count <= row
      <4>1. count * q <= row * q
        BY <1>1, <1>2, <2>2, <3>1, TimesMonotonic
      <4> QED
        BY <1>2, <2>3, <2>4, <2>5, <4>1
    <3> QED
      BY <3>1
  <2> QED
    BY <1>2, <2>2, <2>6
<1>5. dealtIndex(lane, row + 1, q) = i
  BY <1>1, <1>2 DEF dealtIndex
<1>6. ASSUME NEW l \in 0..(q - 1), NEW m \in Nat \ {0}, dealtIndex(l, m, q) = i
      PROVE  l = lane /\ m = row + 1
  <2>1. m - 1 \in Nat /\ (m - 1) * q \in Nat /\ i - 1 = l + (m - 1) * q
    BY <1>1, <1>6 DEF dealtIndex
  <2>2. /\ (m - 1 + 1) * q = (m - 1) * q + q
        /\ (row + 1) * q = row * q + q
    BY <1>1, <1>2, <2>1
  <2> HIDE DEF row
  <2>3. ~(m - 1 + 1 <= row)
    <3>1. CASE m - 1 + 1 <= row
      <4>1. (m - 1 + 1) * q <= row * q
        BY <1>1, <1>2, <2>1, <3>1, TimesMonotonic
      <4> QED
        BY <1>1, <1>2, <2>1, <2>2, <4>1
    <3> QED
      BY <3>1
  <2>4. ~(row + 1 <= m - 1)
    <3>1. CASE row + 1 <= m - 1
      <4>1. (row + 1) * q <= (m - 1) * q
        BY <1>1, <1>2, <2>1, <3>1, TimesMonotonic
      <4> QED
        BY <1>1, <1>2, <2>1, <2>2, <4>1
    <3> QED
      BY <3>1
  <2>5. m - 1 = row
    BY <1>2, <2>1, <2>3, <2>4
  <2> QED
    BY <1>1, <1>2, <2>1, <2>5
<1>7. DOMAIN operationsForLane(operations, lane, q) = 1..count
  BY DEF operationsForLane
<1> HIDE DEF lane, row, count, q
<1>8. row + 1 \in DOMAIN operationsForLane(operations, lane, q)
  BY <1>4, <1>7
<1> QED
  BY <1>3, <1>5, <1>6, <1>8 DEF q, DealtOnlyAt

\* A lane is dealt operations its worker has, in the places dealtIndex names.
LEMMA DealtIndexExists ==
  ASSUME NEW S, NEW operations \in Seq(S), NEW queueDepth \in Nat \ {0},
         NEW lane \in 0..(queueDepth - 1), NEW k \in DOMAIN operationsForLane(operations, lane, queueDepth)
  PROVE  /\ k \in Nat \ {0}
         /\ dealtIndex(lane, k, queueDepth) \in 1..Len(operations)
         /\ operationsForLane(operations, lane, queueDepth)[k] = operations[dealtIndex(lane, k, queueDepth)]
<1> DEFINE n == Len(operations)
           count == (n + queueDepth - 1 - lane) \div queueDepth
<1>1. count \in Nat /\ count * queueDepth <= n + queueDepth - 1 - lane
  <2>1. n + queueDepth - 1 - lane \in Nat
    OBVIOUS
  <2> QED
    BY <2>1, Division
<1>2. k \in 1..count /\ operationsForLane(operations, lane, queueDepth)[k] = operations[lane + 1 + (k - 1) * queueDepth]
  BY DEF operationsForLane
<1> HIDE DEF count
<1>3. (k - 1) * queueDepth <= (count - 1) * queueDepth
  <2>1. k - 1 <= count - 1 /\ k - 1 \in Int /\ count - 1 \in Int /\ queueDepth \in Nat
    BY <1>1, <1>2
  <2> QED
    BY <2>1, TimesMonotonic
<1>4. (count - 1) * queueDepth = count * queueDepth - queueDepth /\ (k - 1) * queueDepth \in Nat
  BY <1>1, <1>2
<1>5. lane + 1 + (k - 1) * queueDepth \in 1..n
  BY <1>1, <1>3, <1>4
<1> QED
  BY <1>2, <1>5 DEF dealtIndex

\* The first block of a worker: the region of a worker begins where the share of
\* those before it, rounded up, ends.
firstBlock(config, worker) ==
  (worker * blockCount(config) + config.Workers - 1) \div config.Workers

\* A block lies behind the regions of earlier workers if it is late enough.
LEMMA FirstBlock ==
  ASSUME NEW config, ValidConfig(config), NEW worker \in Nat
  PROVE  /\ firstBlock(config, worker) \in Nat
         /\ firstBlock(config, worker) * config.Workers < worker * blockCount(config) + config.Workers
         /\ worker * blockCount(config) <= firstBlock(config, worker) * config.Workers
         /\ \A block \in Nat :
              firstBlock(config, worker) <= block <=> worker * blockCount(config) <= block * config.Workers
<1> DEFINE n == blockCount(config)
           w == config.Workers
           first == (worker * n + w - 1) \div w
<1>1. n \in Nat \ {0} /\ w \in Nat \ {0} /\ worker * n \in Nat
  BY BlockBegins DEF ValidConfig
<1>2. worker * n + w - 1 \in Nat
  BY <1>1
<1>3. first \in Nat /\ first * w <= worker * n + w - 1 /\ worker * n + w - 1 < (first + 1) * w
  BY <1>1, <1>2, Division
<1>4. (first + 1) * w = first * w + w /\ first * w \in Nat
  BY <1>1, <1>3
<1> HIDE DEF first
<1>5. first * w < worker * n + w /\ worker * n <= first * w
  BY <1>1, <1>3, <1>4
<1>6. ASSUME NEW block \in Nat
      PROVE  first <= block <=> worker * n <= block * w
  <2>1. block * w \in Nat /\ (block + 1) * w = block * w + w
    BY <1>1
  <2>2. CASE first <= block
    <3>1. first * w <= block * w
      BY <1>1, <1>3, <2>2, TimesMonotonic
    <3> QED
      BY <1>1, <1>4, <1>5, <2>1, <2>2, <3>1
  <2>3. CASE ~(first <= block)
    <3>1. block + 1 <= first
      BY <1>3, <2>3
    <3>2. (block + 1) * w <= first * w
      BY <1>1, <1>3, <3>1, TimesMonotonic
    <3> QED
      BY <1>1, <1>4, <1>5, <2>1, <2>3, <3>2
  <2> QED
    BY <2>2, <2>3
<1> QED
  BY <1>3, <1>5, <1>6 DEF firstBlock, first

\* A worker owns the blocks from its first one to that of the next worker.
LEMMA RegionIsInterval ==
  ASSUME NEW config, ValidConfig(config), NEW worker \in 0..(config.Workers - 1)
  PROVE  {block \in Block(config) : workerOf(config, block) = worker}
           = firstBlock(config, worker)..(firstBlock(config, worker + 1) - 1)
<1> DEFINE n == blockCount(config)
           w == config.Workers
<1>1. n \in Nat \ {0} /\ w \in Nat \ {0} /\ worker \in Nat /\ worker + 1 \in Nat /\ worker + 1 <= w
  BY BlockBegins DEF ValidConfig
<1>2. ASSUME NEW block \in Nat
      PROVE  workerOf(config, block) = worker <=> worker * n <= block * w /\ block * w < (worker + 1) * n
  <2> DEFINE owner == (block * w) \div n
  <2>1. owner \in Nat /\ owner * n <= block * w /\ block * w < (owner + 1) * n /\ block * w \in Nat
    BY <1>1, Division
  <2> HIDE DEF owner
  <2>2. worker * n \in Nat /\ owner * n \in Nat /\ (owner + 1) * n = owner * n + n /\ (worker + 1) * n = worker * n + n
    BY <1>1, <2>1
  <2>3. owner < worker => (owner + 1) * n <= worker * n
    BY <1>1, <2>1, TimesMonotonic
  <2>4. worker < owner => (worker + 1) * n <= owner * n
    BY <1>1, <2>1, TimesMonotonic
  <2>5. owner = worker <=> worker * n <= block * w /\ block * w < (worker + 1) * n
    BY <1>1, <2>1, <2>2, <2>3, <2>4
  <2> QED
    BY <2>5 DEF workerOf, owner
<1>3. firstBlock(config, worker) \in Nat /\ firstBlock(config, worker + 1) \in Nat /\ firstBlock(config, worker + 1) <= n
  <2>1. (worker + 1) * n <= w * n /\ w * n = n * w
    BY <1>1, TimesMonotonic
  <2> QED
    BY <1>1, <2>1, FirstBlock
<1>4. ASSUME NEW block \in Nat
      PROVE  block * w < (worker + 1) * n <=> block <= firstBlock(config, worker + 1) - 1
  <2>1. block * w \in Nat /\ (worker + 1) * n \in Nat
    BY <1>1
  <2>2. firstBlock(config, worker + 1) <= block <=> (worker + 1) * n <= block * w
    BY <1>1, FirstBlock
  <2> QED
    BY <1>3, <2>1, <2>2
<1>5. ASSUME NEW block \in Nat
      PROVE  worker * n <= block * w <=> firstBlock(config, worker) <= block
  BY <1>1, FirstBlock
<1>6. Block(config) = 0..(n - 1)
  BY DEF Block
<1>7. ASSUME NEW block \in Block(config), workerOf(config, block) = worker
      PROVE  block \in firstBlock(config, worker)..(firstBlock(config, worker + 1) - 1)
  BY <1>1, <1>2, <1>3, <1>4, <1>5, <1>6, <1>7
<1>8. ASSUME NEW block \in firstBlock(config, worker)..(firstBlock(config, worker + 1) - 1)
      PROVE  block \in Block(config) /\ workerOf(config, block) = worker
  <2>1. block \in Nat /\ block \in Block(config)
    BY <1>1, <1>3, <1>6
  <2> QED
    BY <1>2, <1>3, <1>4, <1>5, <2>1
<1> QED
  BY <1>7, <1>8

\* The lengths of the regions of two workers differ by at most one block.
LEMMA RegionsAreEven ==
  ASSUME NEW config, ValidConfig(config), NEW u \in 0..(config.Workers - 1), NEW v \in 0..(config.Workers - 1)
  PROVE  /\ firstBlock(config, u) <= firstBlock(config, u + 1)
         /\ firstBlock(config, u + 1) - firstBlock(config, u) <= firstBlock(config, v + 1) - firstBlock(config, v) + 1
<1> DEFINE n == blockCount(config)
           w == config.Workers
<1>1. n \in Nat \ {0} /\ w \in Nat \ {0} /\ u \in Nat /\ u + 1 \in Nat /\ v \in Nat /\ v + 1 \in Nat
  BY BlockBegins DEF ValidConfig
<1>2. PICK a \in Nat, b \in Nat, c \in Nat, d \in Nat :
        a = firstBlock(config, u) /\ b = firstBlock(config, u + 1)
        /\ c = firstBlock(config, v) /\ d = firstBlock(config, v + 1)
  BY <1>1, FirstBlock
<1>3. /\ a * w < u * n + w /\ u * n <= a * w
      /\ b * w < (u + 1) * n + w /\ (u + 1) * n <= b * w
      /\ c * w < v * n + w /\ v * n <= c * w
      /\ d * w < (v + 1) * n + w /\ (v + 1) * n <= d * w
  BY <1>1, <1>2, FirstBlock
<1>4. /\ (u + 1) * n = u * n + n /\ (v + 1) * n = v * n + n
      /\ u * n \in Nat /\ v * n \in Nat
      /\ a * w \in Nat /\ b * w \in Nat /\ c * w \in Nat /\ d * w \in Nat
  BY <1>1, <1>2
<1>5. a <= b
  <2>1. CASE b + 1 <= a
    <3>1. (b + 1) * w <= a * w /\ (b + 1) * w = b * w + w
      BY <1>1, <1>2, <2>1, TimesMonotonic
    <3> QED
      BY <1>1, <1>3, <1>4, <3>1
  <2> QED
    BY <1>2, <2>1
<1>6. b - a <= d - c + 1
  <2>1. CASE d - c + 2 <= b - a
    <3>1. (d - c + 2) * w <= (b - a) * w
      BY <1>1, <1>2, <2>1, TimesMonotonic
    <3>2. (d - c + 2) * w = d * w - c * w + 2 * w /\ (b - a) * w = b * w - a * w
      BY <1>1, <1>2
    <3> QED
      BY <1>1, <1>3, <1>4, <3>1, <3>2
  <2> QED
    BY <1>2, <2>1
<1> QED
  BY <1>2, <1>5, <1>6
=============================================================================
