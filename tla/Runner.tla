------------------------------- MODULE Runner -------------------------------
(***************************************************************************)
(* Runner.Run and runIteration of src/benchmark/runner.go: warm-up and     *)
(* measured rounds, each with a temporary file of its own that workloads   *)
(* prepare, run on and verify, and that the deferred cleanup closes and    *)
(* removes or keeps.  Cancellation may arrive between any two steps.       *)
(*                                                                         *)
(* A step ends with the context check the code makes there: it fails with  *)
(* context.Canceled if the context is cancelled and otherwise goes on or   *)
(* fails with an error of the operating system.  What a workload does to   *)
(* the file is abstracted to the set of blocks that hold data; the file is *)
(* as long as its last such block, and blocks below it may be holes.       *)
(* executeOperations is the batch of operations of OperationBatch.         *)
(***************************************************************************)
EXTENDS Integers, Sequences, FiniteSets

CONSTANTS
  Warmups,     \* config.WarmupIterations
  Iterations,  \* config.Iterations
  LastBlock,   \* blocks of the test file are 0..LastBlock
  Suites       \* selections of workloads, sequences of Kinds

Kinds == {"write", "read", "mixed", "overwrite", "fsync"}

ASSUME RunnerAssumption ==
  /\ Warmups \in Nat
  /\ Iterations \in Nat \ {0}
  /\ LastBlock \in Nat
  /\ Suites \subseteq Seq(Kinds) \ {<< >>}

VARIABLES
  workloads,   \* the runner's workloads
  keepFile,    \* config.KeepFile
  verifyData,  \* config.VerifyData
  direct,      \* config.IOMode is direct
  cancelled,   \* the caller's context
  pc,
  round,       \* warm-ups come first, then the measured iterations
  index,       \* current workload
  disk,        \* blocks with data of each test file that exists, by round
  handle,      \* the open test file
  err,         \* causes joined in the error of the iteration or the run
  closeFailed,
  succeeded,
  measurements, \* of the current iteration
  report       \* results of the measured iterations

config == <<workloads, keepFile, verifyData, direct>>
iteration == <<index, succeeded, measurements>>
vars == <<config, cancelled, pc, round, iteration, disk, handle, err, closeFailed, report>>

Block == 0..LastBlock
Round == 1..(Warmups + Iterations)
Causes == {"canceled", "io", "verify", "close", "remove"}
NoRound == 0

Warm(r) == r <= Warmups
\* warmupConfig neither keeps files nor verifies them.
Keeps(r) == keepFile /\ ~Warm(r)
Verifies(r) == verifyData /\ ~Warm(r)

Preparers == {"read", "mixed", "overwrite"}
Truncating == {"write", "fsync"}
Reading == {"read", "mixed"}

Init ==
  /\ workloads \in Suites
  /\ keepFile \in BOOLEAN
  /\ verifyData \in BOOLEAN
  /\ direct \in BOOLEAN
  /\ cancelled = FALSE
  /\ pc = "preflight"
  /\ round = 1
  /\ index = 1
  /\ disk = [f \in {} |-> {}]
  /\ handle = NoRound
  /\ err = {}
  /\ closeFailed = FALSE
  /\ succeeded = FALSE
  /\ measurements = << >>
  /\ report = << >>

Goto(label) == pc' = label

\* What a step that ends with a context check may fail with.
Failure == IF cancelled THEN "canceled" ELSE "io"

\* Run returns, or runIteration returns before its file exists.
Abort(causes) ==
  /\ err' = causes
  /\ Goto("returned")

\* runIteration returns and its deferred function runs.
Unwind(causes) ==
  /\ err' = causes
  /\ Goto("cleanup")

-----------------------------------------------------------------------------
(* Run *)

Preflight ==
  /\ pc = "preflight"
  /\ \/ Abort({Failure})
     \/ ~cancelled /\ Goto("iterate") /\ UNCHANGED err
  /\ UNCHANGED <<config, cancelled, round, iteration, disk, handle, closeFailed, report>>

\* preflightSpace: the space may be gone by the time it is used.
CheckSpace ==
  /\ pc = "iterate"
  /\ round \in Round
  /\ index' = 1
  /\ succeeded' = FALSE
  /\ measurements' = << >>
  /\ closeFailed' = FALSE
  /\ \/ Abort({Failure})
     \/ ~cancelled /\ Goto("create") /\ UNCHANGED err
  /\ UNCHANGED <<config, cancelled, round, disk, handle, report>>

\* createBenchmarkFile looks at no context.  For direct I/O the file is closed
\* and opened again, and removed if that fails.
CreateFile ==
  /\ pc = "create"
  /\ \/ Abort({"io"}) /\ UNCHANGED <<disk, handle>>
     \/ /\ disk' = [f \in DOMAIN disk \cup {round} |-> IF f = round THEN {} ELSE disk[f]]
        /\ \/ handle' = round /\ Goto("prepare") /\ UNCHANGED err
           \/ direct /\ Abort({"io", "remove"}) /\ UNCHANGED handle
  /\ UNCHANGED <<config, cancelled, round, iteration, closeFailed, report>>

\* summarize, and the final look at the available space.
Finish ==
  /\ pc = "iterate"
  /\ round \notin Round
  /\ \/ Abort({Failure})
     \/ ~cancelled /\ Goto("returned") /\ UNCHANGED err
  /\ UNCHANGED <<config, cancelled, round, iteration, disk, handle, closeFailed, report>>

-----------------------------------------------------------------------------
(* runIteration *)

kind == workloads[index]
data == disk[round]
HasFullSize == LastBlock \in data  \* info.Size() == config.Size
SetData(blocks) == disk' = [disk EXCEPT ![round] = blocks]

\* A plan that writes every block to a truncated file either completes, or
\* fails after some of its writes.
WriteAll(next) ==
  \/ SetData(Block) /\ ~cancelled /\ Goto(next) /\ UNCHANGED err
  \/ \E blocks \in SUBSET Block : SetData(blocks) /\ Unwind({Failure})

\* A plan that reads or overwrites a populated file leaves its blocks with data.
AccessAll(next) ==
  /\ UNCHANGED disk
  /\ Unwind({Failure}) \/ (~cancelled /\ Goto(next) /\ UNCHANGED err)

\* Faulty: an I/O error while the file is populated is ignored.
PrepareIgnoresErrors ==
  /\ pc = "prepare"
  /\ IF kind \in Preparers /\ ~HasFullSize
     THEN /\ \E blocks \in SUBSET Block : SetData(blocks)
          /\ Unwind({Failure}) \/ (~cancelled /\ Goto("run") /\ UNCHANGED err)
     ELSE AccessAll("run")
  /\ UNCHANGED <<config, cancelled, round, iteration, handle, closeFailed, report>>

\* preparePopulatedFile, if the workload is a preparer: a file of the full
\* size is taken to be populated.
Prepare ==
  /\ pc = "prepare"
  /\ IF kind \in Preparers /\ ~HasFullSize
     THEN WriteAll("run")
     ELSE AccessAll("run")
  /\ UNCHANGED <<config, cancelled, round, iteration, handle, closeFailed, report>>

\* The workload itself: its plan, the synchronization and the measurement.
RunWorkload ==
  /\ pc = "run"
  /\ IF kind \in Truncating
     THEN WriteAll("measured")
     ELSE AccessAll("measured")
  /\ UNCHANGED <<config, cancelled, round, iteration, handle, closeFailed, report>>

\* The measurement joins the result of the iteration.
NextWorkload ==
  /\ pc = "measured"
  /\ measurements' = Append(measurements, kind)
  /\ index' = index + 1
  /\ Goto(IF index < Len(workloads) THEN "prepare" ELSE "verify")
  /\ UNCHANGED <<config, cancelled, round, succeeded, disk, handle, err, closeFailed, report>>

\* verifyFile: every block has to be there, and the device may still return
\* data that was not written.
Verify ==
  /\ pc = "verify"
  /\ \/ Unwind({Failure})
     \/ Verifies(round) /\ ~cancelled /\ Unwind({"verify"})
     \/ /\ Verifies(round) => data = Block
        /\ ~cancelled
        /\ Goto("inspect")
        /\ UNCHANGED err
  /\ UNCHANGED <<config, cancelled, round, iteration, disk, handle, closeFailed, report>>

\* inspectFileStorage, and the result is complete.
InspectStorage ==
  /\ pc = "inspect"
  /\ \/ Unwind({Failure}) /\ UNCHANGED succeeded
     \/ ~cancelled /\ succeeded' = TRUE /\ Unwind({})
  /\ UNCHANGED <<config, cancelled, round, index, measurements, disk, handle, closeFailed, report>>

-----------------------------------------------------------------------------
(* The deferred cleanup of runIteration *)

CheckCancelled ==
  /\ pc = "cleanup"
  /\ err' = IF err = {} /\ cancelled THEN {"canceled"} ELSE err
  /\ succeeded' = (succeeded /\ err' = {})
  /\ Goto("close")
  /\ UNCHANGED <<config, cancelled, round, index, measurements, disk, handle, closeFailed, report>>

\* Faulty: an iteration that failed returns without closing its file.
CloseIfSucceeded ==
  /\ pc = "close"
  /\ handle' = IF succeeded THEN NoRound ELSE handle
  /\ closeFailed' \in BOOLEAN
  /\ Goto("remove")
  /\ UNCHANGED <<config, cancelled, round, iteration, disk, err, report>>

\* A failed Close has released the file as well.
Close ==
  /\ pc = "close"
  /\ handle' = NoRound
  /\ closeFailed' \in BOOLEAN
  /\ Goto("remove")
  /\ UNCHANGED <<config, cancelled, round, iteration, disk, err, report>>

joined == err \cup (IF closeFailed THEN {"close"} ELSE {})
WithoutFile == [f \in DOMAIN disk \ {round} |-> disk[f]]

\* Faulty: the outcome of the iteration does not matter for keeping its file.
KeepOrRemoveByConfig ==
  /\ pc = "remove"
  /\ \/ /\ Keeps(round)
        /\ err' = joined
        /\ UNCHANGED disk
     \/ /\ ~Keeps(round)
        /\ \/ disk' = WithoutFile /\ err' = joined
           \/ err' = joined \cup {"remove"} /\ UNCHANGED disk
  /\ Goto("iterationEnd")
  /\ UNCHANGED <<config, cancelled, round, iteration, handle, closeFailed, report>>

\* Faulty: the error of os.Remove is dropped.
KeepOrRemoveSilently ==
  /\ pc = "remove"
  /\ err' = joined
  /\ \/ disk' = WithoutFile
     \/ UNCHANGED disk
  /\ Goto("iterationEnd")
  /\ UNCHANGED <<config, cancelled, round, iteration, handle, closeFailed, report>>

KeepOrRemove ==
  /\ pc = "remove"
  /\ IF Keeps(round) /\ succeeded /\ joined = {}
     THEN UNCHANGED <<disk, err>>
     ELSE \/ disk' = WithoutFile /\ err' = joined
          \/ err' = joined \cup {"remove"} /\ UNCHANGED disk
  /\ Goto("iterationEnd")
  /\ UNCHANGED <<config, cancelled, round, iteration, handle, closeFailed, report>>

\* Faulty: warm-ups are reported like measured iterations.
EndIterationCountsAll ==
  /\ pc = "iterationEnd"
  /\ IF err = {}
     THEN /\ report' = Append(report, [path |-> IF Keeps(round) THEN round ELSE NoRound,
                                       measurements |-> measurements])
          /\ round' = round + 1
          /\ Goto("iterate")
     ELSE Goto("returned") /\ UNCHANGED <<report, round>>
  /\ UNCHANGED <<config, cancelled, iteration, disk, handle, err, closeFailed>>

\* Back in Run: an error ends the run, a measured result joins the report.
EndIteration ==
  /\ pc = "iterationEnd"
  /\ IF err = {}
     THEN /\ report' = IF Warm(round) THEN report
                       ELSE Append(report, [path |-> IF Keeps(round) THEN round ELSE NoRound,
                                            measurements |-> measurements])
          /\ round' = round + 1
          /\ Goto("iterate")
     ELSE Goto("returned") /\ UNCHANGED <<report, round>>
  /\ UNCHANGED <<config, cancelled, iteration, disk, handle, err, closeFailed>>

-----------------------------------------------------------------------------
Cancel ==
  /\ ~cancelled
  /\ cancelled' = TRUE
  /\ UNCHANGED <<config, pc, round, iteration, disk, handle, err, closeFailed, report>>

Next ==
  \/ Preflight \/ CheckSpace \/ CreateFile \/ Finish
  \/ Prepare \/ RunWorkload \/ NextWorkload \/ Verify \/ InspectStorage
  \/ CheckCancelled \/ Close \/ KeepOrRemove \/ EndIteration
  \/ Cancel
  \/ pc = "returned" /\ UNCHANGED vars

Spec == Init /\ [][Next]_vars

-----------------------------------------------------------------------------
(* Properties *)

Succeeded == pc = "returned" /\ err = {}

Labels == {"preflight", "iterate", "create", "prepare", "run", "measured",
           "verify", "inspect", "cleanup", "close", "remove", "iterationEnd", "returned"}

\* The variables have their types; a file exists for at most the rounds begun.
TypeOK ==
  /\ workloads \in Suites
  /\ {keepFile, verifyData, direct, cancelled, closeFailed, succeeded} \subseteq BOOLEAN
  /\ pc \in Labels
  /\ round \in 1..(Warmups + Iterations + 1)
  /\ index \in 1..(Len(workloads) + 1)
  /\ DOMAIN disk \subseteq 1..round
  /\ \A f \in DOMAIN disk : disk[f] \subseteq Block
  /\ handle \in {NoRound, round}
  /\ err \subseteq Causes
  /\ measurements \in Seq(Kinds)
  /\ Len(report) <= Iterations

\* A workload that reads runs on a file whose every block holds data, although
\* its preparation looks only at the size of the file.
ReadsHitData == pc = "run" /\ kind \in Reading => data = Block

\* When the run has returned, a file is left on disk only if the configuration
\* keeps it and it is complete, or if the error says that removing it failed.
LeftFilesAreExplained ==
  pc = "returned" => \A f \in DOMAIN disk : (Keeps(f) /\ disk[f] = Block) \/ "remove" \in err

\* A successful run reports every measured iteration, with a measurement of
\* every workload, and names exactly the files that are left.
ReportIsComplete ==
  Succeeded =>
    /\ Len(report) = Iterations
    /\ \A i \in 1..Iterations : report[i].measurements = workloads
    /\ {report[i].path : i \in 1..Iterations} = IF keepFile THEN DOMAIN disk ELSE {NoRound}

\* No test file stays open after its iteration.
NoHandleIsLeft == pc \in {"preflight", "iterate", "create", "iterationEnd", "returned"} => handle = NoRound

\* What the cancellation tests assert of a run that ends with
\* context.Canceled: no temporary file is retained.
CancelledRunRetainsNothing ==
  pc = "returned" /\ err = {"canceled"} => DOMAIN disk = {}
=============================================================================
