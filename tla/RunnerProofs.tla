----------------------------- MODULE RunnerProofs -----------------------------
(***************************************************************************)
(* Runner.Run for any number of rounds, size of the test file and suite.   *)
(* The inductive invariant says at every step of an iteration what is on   *)
(* disk, what has failed, and what has been measured.  Its heart is that a *)
(* test file is empty or holds data everywhere for as long as nothing has  *)
(* failed, so that looking at its size is enough to know that reads will   *)
(* find data.                                                              *)
(***************************************************************************)
EXTENDS Runner, SequenceTheorems, TLAPS

IterationResult == [path : Nat, measurements : Seq(Kinds)]

TypeInv ==
  /\ TypeOK
  /\ disk = [f \in DOMAIN disk |-> disk[f]]
  /\ report \in Seq(IterationResult)

Opened == {"prepare", "run", "measured", "verify", "inspect", "cleanup", "close"}

\* Which test files there are, and which is open.
FileInv ==
  /\ handle = IF pc \in Opened THEN round ELSE NoRound
  /\ pc \in {"preflight", "iterate", "create"} => round \notin DOMAIN disk
  /\ pc = "returned" /\ err = {} => round \notin DOMAIN disk
  /\ pc \in Opened \cup {"remove"} => round \in DOMAIN disk
  /\ pc = "iterationEnd" /\ err = {} =>
       /\ round \in DOMAIN disk <=> Keeps(round)
       /\ round \in DOMAIN disk => disk[round] = Block
  /\ pc \in {"iterationEnd", "returned"} /\ err # {} => (round \in DOMAIN disk => "remove" \in err)
  /\ \A f \in 1..(round - 1) :
       /\ f \in DOMAIN disk <=> Keeps(f)
       /\ f \in DOMAIN disk => disk[f] = Block

\* What is in the test file of the round.
DataInv ==
  /\ pc \in {"prepare", "run"} => data \in {{}, Block}
  /\ pc = "run" /\ kind \in Preparers => data = Block
  /\ pc \in {"measured", "verify", "inspect"} => data = Block
  /\ pc \in {"cleanup", "close", "remove"} /\ succeeded => data = Block

\* An iteration goes on until it fails.
ErrorInv ==
  /\ pc \in {"preflight", "iterate", "create", "prepare", "run", "measured", "verify", "inspect"} => err = {}
  /\ pc \in {"create", "prepare", "run", "measured", "verify", "inspect"} => succeeded = FALSE
  /\ pc \in {"cleanup", "close", "remove"} => (succeeded <=> err = {})
  /\ pc = "returned" /\ err = {} => round = Warmups + Iterations + 1
  /\ pc \notin {"iterate", "returned"} => round \in Round

\* What has been measured and reported.
ReportInv ==
  /\ pc \in {"create", "prepare", "run", "measured"} =>
       /\ index <= Len(workloads)
       /\ Len(measurements) = index - 1
       /\ \A i \in 1..(index - 1) : measurements[i] = workloads[i]
  /\ pc \in {"verify", "inspect"} => measurements = workloads
  /\ pc \in {"cleanup", "close", "remove", "iterationEnd"} /\ err = {} => measurements = workloads
  /\ Len(report) = IF Warm(round) THEN 0 ELSE round - 1 - Warmups
  /\ \A i \in 1..Len(report) :
       /\ report[i].measurements = workloads
       /\ report[i].path = IF keepFile THEN Warmups + i ELSE NoRound

Inductive == TypeInv /\ FileInv /\ DataInv /\ ErrorInv /\ ReportInv

-----------------------------------------------------------------------------
(* What the types say *)

\* The numbers and sequences of a run are what they seem.
LEMMA Typed ==
  ASSUME TypeInv
  PROVE  /\ Warmups \in Nat /\ Iterations \in Nat \ {0} /\ LastBlock \in Nat
         /\ round \in Nat \ {0} /\ round <= Warmups + Iterations + 1
         /\ round \in Round <=> round <= Warmups + Iterations
         /\ workloads \in Seq(Kinds) /\ Len(workloads) \in Nat \ {0}
         /\ index \in Nat \ {0}
         /\ measurements \in Seq(Kinds) /\ Len(measurements) \in Nat
         /\ report \in Seq(IterationResult) /\ Len(report) \in Nat
         /\ LastBlock \in Block /\ NoRound \notin 1..round
<1>1. /\ workloads \in Seq(Kinds) /\ workloads # << >> /\ round \in 1..(Warmups + Iterations + 1)
      /\ index \in 1..(Len(workloads) + 1)
      /\ measurements \in Seq(Kinds) /\ report \in Seq(IterationResult)
  BY RunnerAssumption DEF TypeInv, TypeOK
<1>2. Len(workloads) \in Nat \ {0} /\ Len(measurements) \in Nat /\ Len(report) \in Nat
  BY <1>1, EmptySeq
<1>3. /\ round \in Nat \ {0} /\ round <= Warmups + Iterations + 1
      /\ round \in Round <=> round <= Warmups + Iterations
  BY <1>1, RunnerAssumption DEF Round
<1>4. LastBlock \in Block /\ NoRound \notin 1..round
  BY RunnerAssumption DEF Block, NoRound
<1>5. index \in Nat \ {0}
  BY <1>1
<1> QED
  BY <1>1, <1>2, <1>3, <1>4, <1>5, RunnerAssumption

\* The workload that is run has a kind.
LEMMA KindTyped ==
  ASSUME TypeInv, index <= Len(workloads)
  PROVE  kind \in Kinds
<1>1. workloads \in Seq(Kinds) /\ index \in 1..Len(workloads)
  BY Typed
<1> QED
  BY <1>1, ElementOfSeq DEF kind

-----------------------------------------------------------------------------
(* Steps that fail *)

\* A step that ends the run with an error before the round has a file.
LEMMA AbortStep ==
  ASSUME Inductive, NEW causes \in (SUBSET Causes) \ {{}}, Abort(causes),
         pc \in {"preflight", "iterate", "create"},
         index' \in {1, index}, succeeded' \in BOOLEAN, measurements' \in Seq(Kinds), closeFailed' \in BOOLEAN,
         UNCHANGED <<config, cancelled, round, disk, handle, report>>
  PROVE  Inductive'
<1>1. pc' = "returned" /\ err' = causes /\ causes # {}
  BY DEF Abort, Goto
<1>2. TypeInv'
  BY <1>1, Typed DEF Inductive, TypeInv, TypeOK, Labels, config
<1>3. FileInv'
  BY <1>1 DEF Inductive, FileInv, config, Opened, Keeps
<1>4. DataInv' /\ ErrorInv'
  BY <1>1 DEF Inductive, DataInv, ErrorInv
<1>5. ReportInv'
  BY <1>1 DEF Inductive, ReportInv, config
<1> QED
  BY <1>2, <1>3, <1>4, <1>5 DEF Inductive

\* A step that fails leaves the iteration to its cleanup, whatever the file
\* holds by then.
LEMMA UnwindStep ==
  ASSUME Inductive, NEW causes \in (SUBSET Causes) \ {{}}, Unwind(causes),
         pc \in {"prepare", "run", "verify", "inspect"},
         disk' = disk \/ \E blocks \in SUBSET Block : disk' = [disk EXCEPT ![round] = blocks],
         UNCHANGED <<config, cancelled, round, iteration, handle, closeFailed, report>>
  PROVE  Inductive'
<1>1. pc' = "cleanup" /\ err' = causes /\ causes # {} /\ UNCHANGED <<index, succeeded, measurements, keepFile, workloads>>
  BY DEF Unwind, Goto, iteration, config
<1>2. /\ DOMAIN disk' = DOMAIN disk
      /\ disk' = [f \in DOMAIN disk' |-> disk'[f]]
      /\ \A f \in DOMAIN disk \ {round} : disk'[f] = disk[f]
      /\ \A f \in DOMAIN disk : disk'[f] \subseteq Block
  BY DEF Inductive, TypeInv, TypeOK
<1>3. TypeInv'
  BY <1>1, <1>2 DEF Inductive, TypeInv, TypeOK, Labels, config
<1>4. FileInv'
  BY <1>1, <1>2, Typed DEF Inductive, FileInv, config, Opened, Keeps
<1>5. DataInv' /\ ErrorInv'
  BY <1>1 DEF Inductive, DataInv, ErrorInv
<1>6. ReportInv'
  BY <1>1 DEF Inductive, ReportInv
<1> QED
  BY <1>3, <1>4, <1>5, <1>6 DEF Inductive

\* A failing step fails with a cause.
LEMMA FailureIsCause == {Failure} \in (SUBSET Causes) \ {{}}
BY DEF Failure, Causes

-----------------------------------------------------------------------------
(* Steps of Run *)

\* The preflight lets the first round begin.
LEMMA PreflightStep == Inductive /\ Preflight => Inductive'
<1> SUFFICES ASSUME Inductive, Preflight PROVE Inductive'
  OBVIOUS
<1>1. pc = "preflight" /\ UNCHANGED <<config, cancelled, round, iteration, disk, handle, closeFailed, report>>
  BY DEF Preflight
<1>2. CASE Abort({Failure})
  BY <1>1, <1>2, AbortStep, FailureIsCause, Typed DEF Inductive, TypeInv, TypeOK, iteration
<1>3. CASE Goto("iterate") /\ UNCHANGED err
  <2>1. TypeInv' /\ FileInv'
    BY <1>1, <1>3 DEF Inductive, TypeInv, TypeOK, FileInv, Goto, config, iteration, Labels, Opened, Keeps
  <2>2. DataInv' /\ ErrorInv' /\ ReportInv'
    BY <1>1, <1>3 DEF Inductive, DataInv, ErrorInv, ReportInv, Goto, config, iteration
  <2> QED
    BY <2>1, <2>2 DEF Inductive
<1> QED
  BY <1>2, <1>3 DEF Preflight

\* A round begins without measurements.
LEMMA CheckSpaceStep == Inductive /\ CheckSpace => Inductive'
<1> SUFFICES ASSUME Inductive, CheckSpace PROVE Inductive'
  OBVIOUS
<1>1. /\ pc = "iterate" /\ round \in Round
      /\ index' = 1 /\ succeeded' = FALSE /\ measurements' = << >> /\ closeFailed' = FALSE
      /\ UNCHANGED <<config, cancelled, round, disk, handle, report>>
  BY DEF CheckSpace
<1>2. << >> \in Seq(Kinds) /\ Len(<< >>) = 0
  OBVIOUS
<1>3. CASE Abort({Failure})
  BY <1>1, <1>2, <1>3, AbortStep, FailureIsCause
<1>4. CASE Goto("create") /\ UNCHANGED err
  <2>1. TypeInv'
    <3>1. 1 \in 1..(Len(workloads) + 1)
      BY Typed DEF Inductive
    <3> QED
      BY <1>1, <1>2, <1>4, <3>1 DEF Inductive, TypeInv, TypeOK, Goto, config, Labels
  <2>2. FileInv' /\ DataInv' /\ ErrorInv'
    BY <1>1, <1>4 DEF Inductive, FileInv, DataInv, ErrorInv, Goto, config, Opened, Keeps
  <2>3. index' <= Len(workloads) /\ Len(measurements') = index' - 1 /\ 1..(index' - 1) = {}
    BY <1>1, <1>2, Typed DEF Inductive
  <2>4. ReportInv'
    BY <1>1, <1>4, <2>3 DEF Inductive, ReportInv, Goto, config
  <2> QED
    BY <2>1, <2>2, <2>4 DEF Inductive
<1> QED
  BY <1>3, <1>4 DEF CheckSpace

\* The test file of a round is created empty.
LEMMA CreateFileStep == Inductive /\ CreateFile => Inductive'
<1> SUFFICES ASSUME Inductive, CreateFile PROVE Inductive'
  OBVIOUS
<1>1. /\ pc = "create" /\ UNCHANGED <<config, cancelled, round, iteration, closeFailed, report>>
      /\ {"io"} \in (SUBSET Causes) \ {{}} /\ {"io", "remove"} \subseteq Causes
  BY DEF CreateFile, Causes
<1>2. CASE Abort({"io"}) /\ UNCHANGED <<disk, handle>>
  BY <1>1, <1>2, AbortStep, Typed DEF Inductive, TypeInv, TypeOK, iteration
<1>3. ASSUME disk' = [f \in DOMAIN disk \cup {round} |-> IF f = round THEN {} ELSE disk[f]],
             \/ handle' = round /\ Goto("prepare") /\ UNCHANGED err
             \/ direct /\ Abort({"io", "remove"}) /\ UNCHANGED handle
      PROVE  Inductive'
  <2>1. /\ DOMAIN disk' = DOMAIN disk \cup {round} /\ disk'[round] = {}
        /\ \A f \in DOMAIN disk \ {round} : disk'[f] = disk[f]
        /\ disk' = [f \in DOMAIN disk' |-> disk'[f]]
    BY <1>3
  <2>2. TypeInv'
    <3>1. /\ pc' \in Labels /\ handle' \in {NoRound, round} /\ err' \subseteq Causes
      BY <1>1, <1>3 DEF Inductive, TypeInv, TypeOK, Goto, Abort, Labels
    <3>2. DOMAIN disk' \subseteq 1..round /\ \A f \in DOMAIN disk' : disk'[f] \subseteq Block
      <4>1. round \in 1..round
        BY Typed DEF Inductive
      <4> QED
        BY <2>1, <4>1 DEF Inductive, TypeInv, TypeOK
    <3> QED
      BY <1>1, <2>1, <3>1, <3>2 DEF Inductive, TypeInv, TypeOK, config, iteration
  <2>3. FileInv'
    BY <1>1, <1>3, <2>1, Typed DEF Inductive, FileInv, Goto, Abort, config, Opened, Keeps
  <2>4. DataInv' /\ ErrorInv'
    BY <1>1, <1>3, <2>1 DEF Inductive, DataInv, ErrorInv, Goto, Abort, iteration, data
  <2>5. ReportInv'
    BY <1>1, <1>3 DEF Inductive, ReportInv, Goto, Abort, config, iteration
  <2> QED
    BY <2>2, <2>3, <2>4, <2>5 DEF Inductive
<1> QED
  BY <1>2, <1>3 DEF CreateFile

\* The run ends after its last round.
LEMMA FinishStep == Inductive /\ Finish => Inductive'
<1> SUFFICES ASSUME Inductive, Finish PROVE Inductive'
  OBVIOUS
<1>1. /\ pc = "iterate" /\ round \notin Round
      /\ UNCHANGED <<config, cancelled, round, iteration, disk, handle, closeFailed, report>>
  BY DEF Finish
<1>2. CASE Abort({Failure})
  BY <1>1, <1>2, AbortStep, FailureIsCause, Typed DEF Inductive, TypeInv, TypeOK, iteration
<1>3. CASE Goto("returned") /\ UNCHANGED err
  <2>1. round = Warmups + Iterations + 1
    <3>1. /\ round \in Nat /\ Warmups \in Nat /\ Iterations \in Nat
          /\ round <= Warmups + Iterations + 1 /\ ~(round <= Warmups + Iterations)
      BY <1>1, Typed DEF Inductive
    <3> QED
      BY <3>1
  <2>2. TypeInv' /\ FileInv'
    BY <1>1, <1>3 DEF Inductive, TypeInv, TypeOK, FileInv, ErrorInv, Goto, config, iteration, Labels, Opened, Keeps
  <2>3. DataInv' /\ ErrorInv' /\ ReportInv'
    BY <1>1, <1>3, <2>1 DEF Inductive, DataInv, ErrorInv, ReportInv, Goto, config, iteration
  <2> QED
    BY <2>2, <2>3 DEF Inductive
<1> QED
  BY <1>2, <1>3 DEF Finish

-----------------------------------------------------------------------------
(* Steps of runIteration *)

\* A step of a workload that succeeds leaves the file as it was, or full.
LEMMA WorkloadStep ==
  ASSUME Inductive, pc \in {"prepare", "run"}, pc' \in {"run", "measured"},
         pc' = "run" => pc = "prepare" /\ (kind \in Preparers => data' = Block),
         pc' = "measured" => data' = Block,
         disk' = disk \/ disk' = [disk EXCEPT ![round] = Block],
         UNCHANGED <<config, cancelled, round, iteration, handle, err, closeFailed, report>>
  PROVE  Inductive'
<1>1. /\ DOMAIN disk' = DOMAIN disk
      /\ disk' = [f \in DOMAIN disk' |-> disk'[f]]
      /\ \A f \in DOMAIN disk \ {round} : disk'[f] = disk[f]
      /\ \A f \in DOMAIN disk : disk'[f] \subseteq Block
      /\ round \in DOMAIN disk /\ data' = disk'[round]
      /\ data' \in {data, Block}
  BY DEF Inductive, TypeInv, TypeOK, FileInv, Opened, data
<1>2. UNCHANGED <<index, succeeded, measurements, keepFile, workloads>> /\ kind' = kind
  BY DEF iteration, config, kind
<1>3. TypeInv'
  BY <1>1, <1>2 DEF Inductive, TypeInv, TypeOK, Labels, config
<1>4. FileInv'
  BY <1>1, <1>2, Typed DEF Inductive, FileInv, Opened, Keeps
<1>5. DataInv'
  BY <1>1, <1>2 DEF Inductive, DataInv
<1>6. ErrorInv' /\ ReportInv'
  BY <1>2 DEF Inductive, ErrorInv, ReportInv
<1> QED
  BY <1>3, <1>4, <1>5, <1>6 DEF Inductive

\* A file that is not empty and not full is never prepared, so its size tells
\* whether it is full.
LEMMA SizeTells == Inductive /\ pc \in {"prepare", "run"} => (HasFullSize <=> data = Block) /\ data \in {{}, Block}
BY Typed DEF Inductive, DataInv, HasFullSize

\* What WriteAll and AccessAll do is to fail, or to go on with a full file.
LEMMA PrepareStep == Inductive /\ Prepare => Inductive'
<1> SUFFICES ASSUME Inductive, Prepare PROVE Inductive'
  OBVIOUS
<1>1. pc = "prepare" /\ UNCHANGED <<config, cancelled, round, iteration, handle, closeFailed, report>>
  BY DEF Prepare
<1>2. round \in DOMAIN disk /\ disk = [f \in DOMAIN disk |-> disk[f]] /\ round' = round
  BY <1>1 DEF Inductive, FileInv, TypeInv, Opened
<1>3. CASE kind \in Preparers /\ ~HasFullSize
  <2>1. WriteAll("run")
    BY <1>3 DEF Prepare
  <2>2. CASE SetData(Block) /\ Goto("run") /\ UNCHANGED err
    <3>1. disk' = [disk EXCEPT ![round] = Block] /\ data' = Block /\ pc' = "run" /\ err' = err
      BY <1>2, <2>2 DEF SetData, Goto, data
    <3> QED
      BY <1>1, <3>1, WorkloadStep
  <2>3. ASSUME NEW blocks \in SUBSET Block, SetData(blocks), Unwind({Failure})
        PROVE  Inductive'
    BY <1>1, <2>3, UnwindStep, FailureIsCause DEF SetData
  <2> QED
    BY <2>1, <2>2, <2>3 DEF WriteAll
<1>4. CASE ~(kind \in Preparers /\ ~HasFullSize)
  <2>1. AccessAll("run")
    BY <1>4 DEF Prepare
  <2>2. CASE Goto("run") /\ UNCHANGED <<err, disk>>
    <3>1. pc' = "run" /\ err' = err /\ disk' = disk /\ data' = data
      BY <1>2, <2>2 DEF Goto, data
    <3>2. kind \in Preparers => data' = Block
      BY <1>1, <1>4, <3>1, SizeTells
    <3> QED
      BY <1>1, <3>1, <3>2, WorkloadStep
  <2>3. CASE disk' = disk /\ Unwind({Failure})
    BY <1>1, <2>3, UnwindStep, FailureIsCause
  <2> QED
    BY <2>1, <2>2, <2>3 DEF AccessAll
<1> QED
  BY <1>3, <1>4

\* A workload truncates the file and writes it, or accesses a full file.
LEMMA RunWorkloadStep == Inductive /\ RunWorkload => Inductive'
<1> SUFFICES ASSUME Inductive, RunWorkload PROVE Inductive'
  OBVIOUS
<1>1. pc = "run" /\ UNCHANGED <<config, cancelled, round, iteration, handle, closeFailed, report>>
  BY DEF RunWorkload
<1>2. round \in DOMAIN disk /\ disk = [f \in DOMAIN disk |-> disk[f]] /\ round' = round
  BY <1>1 DEF Inductive, FileInv, TypeInv, Opened
<1>3. CASE kind \in Truncating
  <2>1. WriteAll("measured")
    BY <1>3 DEF RunWorkload
  <2>2. CASE SetData(Block) /\ Goto("measured") /\ UNCHANGED err
    <3>1. disk' = [disk EXCEPT ![round] = Block] /\ data' = Block /\ pc' = "measured" /\ err' = err
      BY <1>2, <2>2 DEF SetData, Goto, data
    <3> QED
      BY <1>1, <3>1, WorkloadStep
  <2>3. ASSUME NEW blocks \in SUBSET Block, SetData(blocks), Unwind({Failure})
        PROVE  Inductive'
    BY <1>1, <2>3, UnwindStep, FailureIsCause DEF SetData
  <2> QED
    BY <2>1, <2>2, <2>3 DEF WriteAll
<1>4. CASE kind \notin Truncating
  <2>1. AccessAll("measured")
    BY <1>4 DEF RunWorkload
  <2>2. CASE Goto("measured") /\ UNCHANGED <<err, disk>>
    <3>1. pc' = "measured" /\ err' = err /\ disk' = disk /\ data' = data
      BY <1>2, <2>2 DEF Goto, data
    <3>2. kind \in Preparers
      BY <1>1, <1>4, KindTyped DEF Inductive, ReportInv, Kinds, Truncating, Preparers
    <3>3. data' = Block
      BY <1>1, <3>1, <3>2 DEF Inductive, DataInv
    <3> QED
      BY <1>1, <3>1, <3>3, WorkloadStep
  <2>3. CASE disk' = disk /\ Unwind({Failure})
    BY <1>1, <2>3, UnwindStep, FailureIsCause
  <2> QED
    BY <2>1, <2>2, <2>3 DEF AccessAll
<1> QED
  BY <1>3, <1>4

\* The measurements of an iteration follow the suite.
LEMMA NextWorkloadStep == Inductive /\ NextWorkload => Inductive'
<1> SUFFICES ASSUME Inductive, NextWorkload PROVE Inductive'
  OBVIOUS
<1>1. /\ pc = "measured" /\ measurements' = Append(measurements, kind) /\ index' = index + 1
      /\ pc' = IF index < Len(workloads) THEN "prepare" ELSE "verify"
      /\ UNCHANGED <<config, cancelled, round, succeeded, disk, handle, err, closeFailed, report>>
      /\ keepFile' = keepFile /\ workloads' = workloads
  BY DEF NextWorkload, Goto, config
<1>2. /\ index \in Nat \ {0} /\ index <= Len(workloads) /\ Len(workloads) \in Nat
      /\ Len(measurements) = index - 1 /\ measurements \in Seq(Kinds) /\ workloads \in Seq(Kinds)
      /\ kind \in Kinds
      /\ \A i \in 1..(index - 1) : measurements[i] = workloads[i]
  BY <1>1, Typed, KindTyped DEF Inductive, ReportInv
<1>3. /\ measurements' \in Seq(Kinds) /\ Len(measurements') = index
      /\ \A i \in 1..index : measurements'[i] = workloads[i]
  <2>1. measurements' \in Seq(Kinds) /\ Len(measurements') = Len(measurements) + 1
    BY <1>1, <1>2
  <2>2. ASSUME NEW i \in 1..index
        PROVE  measurements'[i] = workloads[i]
    <3>1. CASE i = index
      BY <1>1, <1>2, <3>1 DEF kind
    <3>2. CASE i # index
      <4>1. i \in 1..(index - 1) /\ i \in 1..Len(measurements)
        BY <1>2, <3>2
      <4> QED
        BY <1>1, <1>2, <4>1
    <3> QED
      BY <3>1, <3>2
  <2> QED
    BY <1>2, <2>1, <2>2
<1>4. pc' = "verify" => measurements' = workloads
  <2>1. ASSUME pc' = "verify"
        PROVE  measurements' = workloads
    <3>1. index = Len(workloads)
      BY <1>1, <1>2, <2>1
    <3> QED
      BY <1>2, <1>3, <3>1, SeqEqual
  <2> QED
    BY <2>1
<1>5. TypeInv'
  BY <1>1, <1>2, <1>3 DEF Inductive, TypeInv, TypeOK, Labels, config
<1>6. FileInv' /\ DataInv' /\ ErrorInv'
  <2>1. data' = data
    BY <1>1 DEF data
  <2> QED
    BY <1>1, <2>1 DEF Inductive, FileInv, DataInv, ErrorInv, Opened, Keeps
<1>7. ReportInv'
  BY <1>1, <1>2, <1>3, <1>4 DEF Inductive, ReportInv
<1> QED
  BY <1>5, <1>6, <1>7 DEF Inductive

\* Verification looks at a full file, and changes nothing.
LEMMA VerifyStep == Inductive /\ Verify => Inductive'
<1> SUFFICES ASSUME Inductive, Verify PROVE Inductive'
  OBVIOUS
<1>1. /\ pc = "verify" /\ UNCHANGED <<config, cancelled, round, iteration, disk, handle, closeFailed, report>>
      /\ {"verify"} \in (SUBSET Causes) \ {{}}
  BY DEF Verify, Causes
<1>2. CASE Unwind({Failure}) \/ Unwind({"verify"})
  BY <1>1, <1>2, UnwindStep, FailureIsCause
<1>3. CASE Goto("inspect") /\ UNCHANGED err
  <2>1. data' = data /\ pc' = "inspect" /\ err' = err
    BY <1>1, <1>3 DEF data, Goto
  <2>2. TypeInv' /\ FileInv'
    BY <1>1, <2>1 DEF Inductive, TypeInv, TypeOK, FileInv, config, iteration, Labels, Opened, Keeps
  <2>3. DataInv' /\ ErrorInv' /\ ReportInv'
    BY <1>1, <2>1 DEF Inductive, DataInv, ErrorInv, ReportInv, config, iteration
  <2> QED
    BY <2>2, <2>3 DEF Inductive
<1> QED
  BY <1>2, <1>3 DEF Verify

\* Only an iteration whose every step has succeeded is a success.
LEMMA InspectStorageStep == Inductive /\ InspectStorage => Inductive'
<1> SUFFICES ASSUME Inductive, InspectStorage PROVE Inductive'
  OBVIOUS
<1>1. pc = "inspect" /\ UNCHANGED <<config, cancelled, round, index, measurements, disk, handle, closeFailed, report>>
  BY DEF InspectStorage
<1>2. CASE Unwind({Failure}) /\ UNCHANGED succeeded
  BY <1>1, <1>2, UnwindStep, FailureIsCause DEF iteration
<1>3. CASE succeeded' = TRUE /\ Unwind({})
  <2>1. data' = data /\ pc' = "cleanup" /\ err' = {} /\ succeeded' = TRUE
    BY <1>1, <1>3 DEF data, Unwind, Goto
  <2>2. TypeInv' /\ FileInv'
    BY <1>1, <2>1 DEF Inductive, TypeInv, TypeOK, FileInv, config, Labels, Opened, Keeps
  <2>3. DataInv' /\ ErrorInv' /\ ReportInv'
    BY <1>1, <2>1 DEF Inductive, DataInv, ErrorInv, ReportInv, config
  <2> QED
    BY <2>2, <2>3 DEF Inductive
<1> QED
  BY <1>2, <1>3 DEF InspectStorage

-----------------------------------------------------------------------------
(* Steps of the deferred cleanup *)

\* A cancellation that is noticed late makes the iteration a failure.
LEMMA CheckCancelledStep == Inductive /\ CheckCancelled => Inductive'
<1> SUFFICES ASSUME Inductive, CheckCancelled PROVE Inductive'
  OBVIOUS
<1>1. /\ pc = "cleanup" /\ pc' = "close"
      /\ UNCHANGED <<config, cancelled, round, index, measurements, disk, handle, closeFailed, report>>
      /\ succeeded' = (succeeded /\ err' = {})
  BY DEF CheckCancelled, Goto
<1>2. err' = err \/ err' = {"canceled"}
  BY DEF CheckCancelled
<1>3. err' \subseteq Causes /\ (err' = {} => err = {}) /\ succeeded' \in BOOLEAN /\ (succeeded' <=> err' = {})
  <2>1. err \subseteq Causes /\ succeeded \in BOOLEAN /\ (succeeded <=> err = {})
    BY <1>1 DEF Inductive, TypeInv, TypeOK, ErrorInv
  <2> QED
    BY <1>1, <1>2, <2>1 DEF Causes
<1>4. succeeded' => succeeded
  BY <1>1
<1>5. data' = data
  BY <1>1 DEF data
<1>6. TypeInv'
  BY <1>1, <1>3 DEF Inductive, TypeInv, TypeOK, Labels, config
<1>7. FileInv' /\ DataInv'
  BY <1>1, <1>4, <1>5 DEF Inductive, FileInv, DataInv, Opened, Keeps, config
<1>8. ErrorInv' /\ ReportInv'
  BY <1>1, <1>3 DEF Inductive, ErrorInv, ReportInv, config
<1> QED
  BY <1>6, <1>7, <1>8 DEF Inductive

\* The file is closed, whatever has failed.
LEMMA CloseStep == Inductive /\ Close => Inductive'
<1> SUFFICES ASSUME Inductive, Close PROVE Inductive'
  OBVIOUS
<1>1. /\ pc = "close" /\ pc' = "remove" /\ handle' = NoRound /\ closeFailed' \in BOOLEAN
      /\ UNCHANGED <<config, cancelled, round, iteration, disk, err, report>>
  BY DEF Close, Goto
<1>2. data' = data
  BY <1>1 DEF data
<1>3. TypeInv'
  BY <1>1 DEF Inductive, TypeInv, TypeOK, Labels, config, iteration
<1>4. FileInv' /\ DataInv'
  BY <1>1, <1>2 DEF Inductive, FileInv, DataInv, Opened, Keeps, config, iteration
<1>5. ErrorInv' /\ ReportInv'
  BY <1>1 DEF Inductive, ErrorInv, ReportInv, config, iteration
<1> QED
  BY <1>3, <1>4, <1>5 DEF Inductive

\* A file outlives its iteration only if it is to be kept and complete, or if
\* the error says so.
LEMMA KeepOrRemoveStep == Inductive /\ KeepOrRemove => Inductive'
<1> SUFFICES ASSUME Inductive, KeepOrRemove PROVE Inductive'
  OBVIOUS
<1>1. /\ pc = "remove" /\ pc' = "iterationEnd"
      /\ UNCHANGED <<config, cancelled, round, iteration, handle, closeFailed, report>>
  BY DEF KeepOrRemove, Goto
<1>2. /\ round \in DOMAIN disk /\ disk = [f \in DOMAIN disk |-> disk[f]]
      /\ err \subseteq Causes /\ joined \subseteq Causes /\ (joined = {} => err = {})
      /\ succeeded <=> err = {}
      /\ succeeded => disk[round] = Block
  BY <1>1 DEF Inductive, TypeInv, TypeOK, FileInv, ErrorInv, DataInv, data, joined, Causes
<1>3. /\ DOMAIN disk' \subseteq DOMAIN disk
      /\ disk' = [f \in DOMAIN disk' |-> disk'[f]]
      /\ \A f \in DOMAIN disk \ {round} : f \in DOMAIN disk' /\ disk'[f] = disk[f]
      /\ round \in DOMAIN disk' => disk'[round] = disk[round]
      /\ err' \subseteq Causes /\ (err' = {} => err = {})
      /\ err' = {} => (round \in DOMAIN disk' <=> Keeps(round))
      /\ err' # {} => (round \in DOMAIN disk' => "remove" \in err')
  <2>1. CASE Keeps(round) /\ succeeded /\ joined = {}
    BY <1>2, <2>1 DEF KeepOrRemove
  <2>2. CASE ~(Keeps(round) /\ succeeded /\ joined = {}) /\ disk' = WithoutFile /\ err' = joined
    <3>1. DOMAIN disk' = DOMAIN disk \ {round} /\ disk' = [f \in DOMAIN disk' |-> disk[f]]
      BY <2>2 DEF WithoutFile
    <3>2. err' = {} => ~Keeps(round)
      BY <1>2, <2>2
    <3> QED
      BY <1>2, <2>2, <3>1, <3>2
  <2>3. CASE err' = joined \cup {"remove"} /\ UNCHANGED disk
    BY <1>2, <2>3 DEF Causes
  <2> QED
    BY <2>1, <2>2, <2>3 DEF KeepOrRemove
<1>4. TypeInv'
  BY <1>1, <1>3 DEF Inductive, TypeInv, TypeOK, Labels, config, iteration
<1>5. FileInv'
  <2>1. \A f \in 1..(round - 1) : f # round
    BY Typed DEF Inductive
  <2>2. \A f \in 1..(round - 1) :
          /\ f \in DOMAIN disk' <=> Keeps(f)
          /\ f \in DOMAIN disk' => disk'[f] = Block
    BY <1>3, <2>1 DEF Inductive, FileInv
  <2> QED
    BY <1>1, <1>2, <1>3, <2>2 DEF Inductive, FileInv, Opened, Keeps, config
<1>6. DataInv' /\ ErrorInv' /\ ReportInv'
  BY <1>1, <1>3 DEF Inductive, DataInv, ErrorInv, ReportInv, config, iteration
<1> QED
  BY <1>4, <1>5, <1>6 DEF Inductive

\* A round that succeeds is reported at its place, unless it is a warm-up.
LEMMA EndIterationStep == Inductive /\ EndIteration => Inductive'
<1> SUFFICES ASSUME Inductive, EndIteration PROVE Inductive'
  OBVIOUS
<1>1. /\ pc = "iterationEnd" /\ round \in Round
      /\ UNCHANGED <<config, cancelled, iteration, disk, handle, err, closeFailed>>
  BY DEF EndIteration, Inductive, ErrorInv
<1>2. CASE err # {}
  <2>1. pc' = "returned" /\ UNCHANGED <<report, round>>
    BY <1>2 DEF EndIteration, Goto
  <2>2. TypeInv' /\ FileInv'
    BY <1>1, <1>2, <2>1 DEF Inductive, TypeInv, TypeOK, FileInv, config, iteration, Labels, Opened, Keeps
  <2>3. DataInv' /\ ErrorInv' /\ ReportInv'
    BY <1>1, <1>2, <2>1 DEF Inductive, DataInv, ErrorInv, ReportInv, config, iteration
  <2> QED
    BY <2>2, <2>3 DEF Inductive
<1>3. CASE err = {}
  <2> DEFINE result == [path |-> IF Keeps(round) THEN round ELSE NoRound, measurements |-> measurements]
  <2>1. /\ pc' = "iterate" /\ round' = round + 1
        /\ report' = IF Warm(round) THEN report ELSE Append(report, result)
    BY <1>3 DEF EndIteration, Goto
  <2>2. /\ round \in Nat \ {0} /\ Warmups \in Nat /\ Iterations \in Nat /\ round <= Warmups + Iterations
        /\ report \in Seq(IterationResult) /\ Len(report) \in Nat
        /\ measurements = workloads /\ measurements \in Seq(Kinds)
    BY <1>1, <1>3, Typed DEF Inductive, ReportInv
  <2>3. result \in IterationResult
    BY <2>2 DEF IterationResult, NoRound
  <2>4. /\ report' \in Seq(IterationResult) /\ Len(report') <= Iterations
        /\ Len(report') = IF round + 1 <= Warmups THEN 0 ELSE round - Warmups
        /\ \A i \in 1..Len(report') :
             /\ report'[i].measurements = workloads
             /\ report'[i].path = IF keepFile THEN Warmups + i ELSE NoRound
    <3>1. CASE Warm(round)
      <4>1. Len(report) = 0 /\ report' = report /\ round <= Warmups
        BY <2>1, <3>1 DEF Inductive, ReportInv, Warm
      <4> QED
        BY <2>2, <4>1
    <3>2. CASE ~Warm(round)
      <4>1. Len(report) = round - 1 - Warmups /\ report' = Append(report, result) /\ ~(round <= Warmups)
        BY <2>1, <3>2 DEF Inductive, ReportInv, Warm
      <4>2. report' \in Seq(IterationResult) /\ Len(report') = Len(report) + 1
        BY <2>2, <2>3, <4>1
      <4>3. ASSUME NEW i \in 1..Len(report')
            PROVE  /\ report'[i].measurements = workloads
                   /\ report'[i].path = IF keepFile THEN Warmups + i ELSE NoRound
        <5>1. CASE i \in 1..Len(report)
          <6>1. report'[i] = report[i]
            BY <2>2, <2>3, <4>1, <5>1
          <6> QED
            BY <5>1, <6>1 DEF Inductive, ReportInv
        <5>2. CASE i = Len(report) + 1
          <6>1. report'[i] = result /\ Warmups + i = round
            BY <2>2, <2>3, <4>1, <5>2
          <6> QED
            BY <2>2, <3>2, <6>1 DEF Keeps
        <5> QED
          BY <2>2, <4>2, <5>1, <5>2
      <4> QED
        BY <2>2, <4>1, <4>2, <4>3
    <3> QED
      BY <3>1, <3>2
  <2> HIDE DEF result
  <2>5. TypeInv'
    <3>1. /\ round' \in 1..(Warmups + Iterations + 1) /\ handle = NoRound
          /\ DOMAIN disk \subseteq 1..round'
      BY <1>1, <2>1, <2>2 DEF Inductive, FileInv, Opened, TypeInv, TypeOK
    <3> QED
      BY <1>1, <2>1, <2>4, <3>1 DEF Inductive, TypeInv, TypeOK, Labels, config, iteration
  <2>6. FileInv'
    <3>1. round' \notin DOMAIN disk /\ handle = NoRound
      BY <1>1, <2>1, <2>2 DEF Inductive, FileInv, Opened, TypeInv, TypeOK
    <3>2. \A f \in 1..(round' - 1) :
            /\ f \in DOMAIN disk <=> Keeps(f)
            /\ f \in DOMAIN disk => disk[f] = Block
      <4>1. \A f \in 1..(round' - 1) : f \in 1..(round - 1) \/ f = round
        BY <2>1, <2>2
      <4> QED
        BY <1>1, <1>3, <4>1 DEF Inductive, FileInv
    <3> QED
      BY <1>1, <2>1, <3>1, <3>2 DEF FileInv, Opened, Keeps, config
  <2>7. DataInv' /\ ErrorInv'
    BY <1>1, <1>3, <2>1 DEF DataInv, ErrorInv
  <2>8. ReportInv'
    <3>1. Len(report') = IF round' <= Warmups THEN 0 ELSE round' - 1 - Warmups
      BY <2>1, <2>2, <2>4
    <3> QED
      BY <1>1, <2>1, <2>4, <3>1 DEF ReportInv, Warm, config
  <2> QED
    BY <2>5, <2>6, <2>7, <2>8 DEF Inductive
<1> QED
  BY <1>2, <1>3

\* A cancellation, or no step at all, changes nothing the invariant speaks of.
LEMMA CancelStep ==
  Inductive /\ cancelled' \in BOOLEAN
  /\ UNCHANGED <<config, pc, round, iteration, disk, handle, err, closeFailed, report>>
  => Inductive'
<1> SUFFICES ASSUME Inductive, cancelled' \in BOOLEAN,
                    UNCHANGED <<config, pc, round, iteration, disk, handle, err, closeFailed, report>>
             PROVE  Inductive'
  OBVIOUS
<1>1. data' = data /\ kind' = kind
  BY DEF data, kind, config, iteration
<1>2. TypeInv' /\ FileInv'
  BY DEF Inductive, TypeInv, TypeOK, FileInv, Opened, Keeps, config, iteration
<1>3. DataInv' /\ ErrorInv' /\ ReportInv'
  BY <1>1 DEF Inductive, DataInv, ErrorInv, ReportInv, config, iteration
<1> QED
  BY <1>2, <1>3 DEF Inductive

-----------------------------------------------------------------------------
(* The invariant *)

\* A run begins with an empty directory and without an error.
LEMMA InductiveInit == Init => Inductive
<1> SUFFICES ASSUME Init PROVE Inductive
  OBVIOUS
<1>1. << >> \in Seq(Kinds) /\ << >> \in Seq(IterationResult) /\ Len(<< >>) = 0
  OBVIOUS
<1>2. /\ Warmups \in Nat /\ Iterations \in Nat \ {0}
      /\ workloads \in Seq(Kinds) /\ workloads # << >>
  BY RunnerAssumption DEF Init
<1>3. Len(workloads) \in Nat \ {0}
  BY <1>2, EmptySeq
<1>4. disk = [f \in DOMAIN disk |-> disk[f]] /\ DOMAIN disk = {}
  BY DEF Init
<1>5. TypeInv
  <2>1. 1 \in 1..(Warmups + Iterations + 1) /\ 1 \in 1..(Len(workloads) + 1) /\ Len(report) <= Iterations
    BY <1>1, <1>2, <1>3 DEF Init
  <2> QED
    BY <1>1, <1>4, <2>1 DEF Init, TypeInv, TypeOK, Labels
<1>6. FileInv /\ DataInv
  BY <1>4 DEF Init, FileInv, DataInv, Opened, NoRound
<1>7. ErrorInv
  BY <1>2 DEF Init, ErrorInv, Round
<1>8. ReportInv
  BY <1>1, <1>2 DEF Init, ReportInv, Warm
<1> QED
  BY <1>5, <1>6, <1>7, <1>8 DEF Inductive

\* Every step of a run preserves the invariant.
LEMMA InductiveStep == Inductive /\ [Next]_vars => Inductive'
<1> SUFFICES ASSUME Inductive, [Next]_vars PROVE Inductive'
  OBVIOUS
<1>1. CASE Preflight \/ CheckSpace \/ CreateFile \/ Finish
  BY <1>1, PreflightStep, CheckSpaceStep, CreateFileStep, FinishStep
<1>2. CASE Prepare \/ RunWorkload \/ NextWorkload \/ Verify \/ InspectStorage
  BY <1>2, PrepareStep, RunWorkloadStep, NextWorkloadStep, VerifyStep, InspectStorageStep
<1>3. CASE CheckCancelled \/ Close \/ KeepOrRemove \/ EndIteration
  BY <1>3, CheckCancelledStep, CloseStep, KeepOrRemoveStep, EndIterationStep
<1>4. CASE Cancel
  BY <1>4, CancelStep DEF Cancel
<1>5. CASE UNCHANGED vars
  <2>1. cancelled' \in BOOLEAN
    BY <1>5 DEF vars, Inductive, TypeInv, TypeOK
  <2> QED
    BY <1>5, <2>1, CancelStep DEF vars
<1> QED
  BY <1>1, <1>2, <1>3, <1>4, <1>5 DEF Next

\* The invariant holds in every state of a run, whatever the number of rounds,
\* the size of the file, the suite, and the moment of a cancellation.
THEOREM InductiveInvariant == Spec => []Inductive
<1>1. Inductive /\ [Next]_vars => Inductive'
  BY InductiveStep
<1> QED
  BY <1>1, InductiveInit, PTL DEF Spec

-----------------------------------------------------------------------------
(* The properties *)

\* The state of a run keeps its types.
THEOREM TypeCorrect == Spec => []TypeOK
<1>1. Inductive => TypeOK
  BY DEF Inductive, TypeInv
<1> QED
  BY <1>1, InductiveInvariant, PTL

\* A workload that reads finds data in every block, although only the size of
\* its file has been looked at.
THEOREM ReadsFindData == Spec => []ReadsHitData
<1>1. Inductive => ReadsHitData
  BY DEF Inductive, DataInv, ReadsHitData, Reading, Preparers
<1> QED
  BY <1>1, InductiveInvariant, PTL

\* A run leaves the complete files it is to keep, and otherwise says that a
\* file could not be removed.
THEOREM FilesExplained == Spec => []LeftFilesAreExplained
<1>1. ASSUME Inductive, pc = "returned", NEW f \in DOMAIN disk
      PROVE  (Keeps(f) /\ disk[f] = Block) \/ "remove" \in err
  <2>1. f \in 1..(round - 1) \/ f = round
    BY <1>1, Typed DEF Inductive, TypeInv, TypeOK
  <2>2. CASE f \in 1..(round - 1)
    BY <1>1, <2>2 DEF Inductive, FileInv
  <2>3. CASE f = round
    BY <1>1, <2>3 DEF Inductive, FileInv
  <2> QED
    BY <2>1, <2>2, <2>3
<1>2. Inductive => LeftFilesAreExplained
  BY <1>1 DEF LeftFilesAreExplained
<1> QED
  BY <1>2, InductiveInvariant, PTL

\* A successful run reports each measured iteration once and in order, and the
\* files it names are the files it has left.
THEOREM ReportComplete == Spec => []ReportIsComplete
<1>1. ASSUME Inductive, Succeeded
      PROVE  /\ Len(report) = Iterations
             /\ \A i \in 1..Iterations : report[i].measurements = workloads
             /\ {report[i].path : i \in 1..Iterations} = IF keepFile THEN DOMAIN disk ELSE {NoRound}
  <2>1. Warmups \in Nat /\ Iterations \in Nat \ {0} /\ pc = "returned" /\ err = {}
    BY <1>1, Typed DEF Inductive, Succeeded
  <2>2. round = Warmups + Iterations + 1 /\ ~(round <= Warmups)
    BY <1>1, <2>1 DEF Inductive, ErrorInv
  <2>3. Len(report) = Iterations
    BY <1>1, <2>1, <2>2 DEF Inductive, ReportInv, Warm
  <2>4. \A i \in 1..Iterations :
          /\ report[i].measurements = workloads
          /\ report[i].path = IF keepFile THEN Warmups + i ELSE NoRound
    BY <1>1, <2>3 DEF Inductive, ReportInv
  <2>5. CASE keepFile
    <3>1. \A f \in DOMAIN disk : f \in 1..(round - 1)
      BY <1>1, <2>1, <2>2 DEF Inductive, FileInv, TypeInv, TypeOK
    <3>2. \A f \in 1..(round - 1) : f \in DOMAIN disk <=> ~(f <= Warmups)
      BY <1>1, <2>5 DEF Inductive, FileInv, Keeps, Warm
    <3>3. ASSUME NEW f \in DOMAIN disk
          PROVE  f \in {report[i].path : i \in 1..Iterations}
      <4>1. f - Warmups \in 1..Iterations /\ Warmups + (f - Warmups) = f
        BY <2>1, <2>2, <3>1, <3>2
      <4> QED
        BY <2>4, <2>5, <4>1
    <3>4. ASSUME NEW i \in 1..Iterations
          PROVE  report[i].path \in DOMAIN disk
      <4>1. Warmups + i \in 1..(round - 1) /\ ~(Warmups + i <= Warmups)
        BY <2>1, <2>2
      <4> QED
        BY <2>4, <2>5, <3>2, <4>1
    <3> QED
      BY <2>3, <2>4, <2>5, <3>3, <3>4
  <2>6. CASE ~keepFile
    <3>1. 1 \in 1..Iterations
      BY <2>1
    <3> QED
      BY <2>3, <2>4, <2>6, <3>1
  <2> QED
    BY <2>5, <2>6
<1>2. Inductive => ReportIsComplete
  BY <1>1 DEF ReportIsComplete
<1> QED
  BY <1>2, InductiveInvariant, PTL

\* The test file of an iteration is closed when the iteration is over.
THEOREM HandlesClosed == Spec => []NoHandleIsLeft
<1>1. Inductive => NoHandleIsLeft
  BY DEF Inductive, FileInv, NoHandleIsLeft, Opened
<1> QED
  BY <1>1, InductiveInvariant, PTL
=============================================================================
