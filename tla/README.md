# A TLA+ verification of diskbenchmark

This directory holds TLA+ models of `diskbenchmark`, the TLC configurations
that check them on small instances, and proofs for TLAPS. It describes the code
under `src/` at one commit; file and line references are to that commit.

## The system

`diskbenchmark` measures storage. A *runner* repeats a selection of *workloads*
on a temporary file; a workload splits the file into a *plan* of block
operations and hands it to *executeOperations*, which performs the plan on
many goroutines. A command line calls the runner once; a desktop application
drives it through a *service* whose events a React *frontend* reduces to what
it shows.

| Component | Code | State | Operations | Hard part | Correct when |
| --- | --- | --- | --- | --- | --- |
| Operation planning | `benchmark/workload.go` 260-330, 428-438, 467 | plans under construction | `sequentialPlan`, `randomPlan`, `fsyncPlan`, `operationsForLane` | rounding, the last partial block, uneven splits | operations are disjoint, cover the file and are shared out |
| Lane engine | `benchmark/workload.go` 332-465 | lane goroutines, results channel, wait group, derived context, measurement | `executeOperations`, `executeOperation` | interleavings, cancellation, channel close, deadline | right error, complete plan, nothing left running |
| Workloads, file content | `benchmark/workload.go` 22-258 | the test file | `Prepare`, `Run` | size as a proxy for content; buffer reuse | what is read was written |
| Runner | `benchmark/runner.go` | report, open file, iteration | `Run`, `runIteration`, deferred cleanup | cancellation and failure between any two steps | nothing left behind unexplained, report complete |
| I/O mode, files | `benchmark/io.go`, `direct_*.go` | test file | `createBenchmarkFile` | reopening for direct I/O | a failed creation leaves no file silently |
| Cache control | `benchmark/cache*.go` | none | `applyCacheControl` | none | policy table |
| Storage, verification | `benchmark/storage*.go`, `verify.go` | none | `preflightSpace`, `inspectFileStorage`, `verifyFile` | 64-bit products | saturation; every byte compared |
| Configuration | `benchmark/config.go` | none | `Validate` | none | what the planners rely on holds |
| Histogram | `benchmark/histogram.go` | bucket counts | `Observe`, `Merge`, percentiles | bucket bounds, ranks | percentile bounds the exact rank |
| Summaries | `benchmark/result.go` | none | `summarize` | floating point | — |
| Service | `app/service.go` | active run, kept report, two mutexes | `StartBenchmark`, `CancelBenchmark` | races of calls with the end of a run; order of events | one run at a time; results, events and reports agree |
| Export | `app/export.go`, `output/render.go` | temporary report file, its buffer | `ExportReport`, `writeReport`, `Render` | failure or crash between write and rename | an existing report is only replaced whole; success means written |
| Request, write impact, selection | `app/service.go` 280-414, `app/safety.go`, `workloads/`, `suite/`, `units/` | none (a file that is read twice) | `buildBenchmark`, `assessWriteImpact`, `Select`, `Load`, `ParseBytes` | the suite file may change in between; errors found by words | what runs was confirmed; errors are shown at the right field |
| Desktop shell | `main.go` | runtime context | event delivery | asynchronous delivery | — |
| Frontend state | `frontend/src/features/execution/state.ts` | reducer state | reducer actions | call results and events in either order, stale runs | shows the active run and nothing of another |
| Frontend form | `frontend/src/features/configuration/BenchmarkForm.tsx` | request, inspection, assessment | submit, inspect, confirm | answers overtaking each other | assessment belongs to the request |
| Command line | `cmd/diskbenchmark/main.go` | none | `run` | written separately from the service | runs what the service would run, but for some seeds |
| DTOs | `app/report.go`, `app/progress.go` | none | copies | none | — |

How they interact: the frontend *calls* the service (each call a goroutine of
the desktop runtime) and *listens* to its events; the service *calls* the runner
synchronously and cancels it through a `context.Context`; the runner calls back
its observer on its own goroutine; a workload calls `executeOperations`, whose
lanes share the file, a context and a channel.

## The modules

| Module | Models | Checked by |
| --- | --- | --- |
| `Operations` | the planners' arithmetic, as operators | through `OperationPlan` |
| `OperationPlan` | the loops of `sequentialPlan`, `randomPlan`, `fsyncPlan`, one operation per step | `OperationPlan.cfg` |
| `LaneEngine` | `executeOperations` | `LaneEngine.cfg` |
| `OperationBatch` | what `executeOperations` promises its callers | refined by `LaneEngine` |
| `Runner` | `Run`, `runIteration`, the workloads' effect on the file | `Runner.cfg`, `RunnerCancelled.cfg` |
| `Service` | `StartBenchmark`, `CancelBenchmark` at the granularity of the mutexes | `ServiceCalls.cfg`, `ServiceLifecycle.cfg`, `ServiceCleanup.cfg` |
| `RunLifecycle` | what the service promises the listeners of its events | refined by `Service` |
| `Desktop` | the frontend's reducer and form over `Service`, with delayed events and answers | `Desktop.cfg`, `DesktopEdited.cfg` |
| `WorkloadSuites` | suite files, built-in workloads, their names and durations, as operators | through `Submission` |
| `Requests` | `buildBenchmark`, `configErrorField`, `assessWriteImpact`, the command line's flags, as operators | through `Submission` |
| `Submission` | a request's way from the form to its run, with files changing on the way | `Submission.cfg`, `SubmissionWarmups.cfg` |
| `ReportExport` | `ExportReport`, `writeReport`, `Render`, crashes | `ReportExport.cfg` |
| `ReportFiles` | what an export promises the user | refined by `ReportExport` |
| `OperationsProofs`, `OperationPlanProofs`, `LaneEngineProofs`, `RunnerProofs`, `ServiceProofs`, `SubmissionProofs`, `ReportExportProofs`, `DesktopProofs` | the theorems | TLAPS |

`MCOperationPlan`, `MCLaneEngine`, `MCRunner`, `MCService` and `MCSubmission` give the constants
their values. A definition commented "Faulty" is a plausible mistake in the
definition below it; nothing uses it. Putting it in the place of that
definition must make a property fail, which shows that the property can fail.

Composition is by contract: `Runner` uses a workload's plan as `OperationBatch`
describes it (it completes, or fails with the operations of a subset done, and
with `context.Canceled` only under a cancelled context), `Service` uses the
runner through the errors `Runner` can return, `ReportExport` uses the service
through what `LastReportIsKept` says of its reports, and `Desktop` takes from
`Submission` that validation rejects, asks or accepts, and that only an edited
suite makes a start ask again. `Desktop` EXTENDS `Service` itself: page and
service are composed step by step.

### Operations and OperationPlan

A block is an index; `blockSize` cuts the last one, `workerOf` is
`block * workers / blocks`, integer division included. `OperationPlan` picks a
configuration that `ValidConfig` (the numeric part of `Config.Validate`) admits,
and then places one block per step: in order for the sequential and fsync plans,
in any order for the random one, which stands for every permutation and every
choice of the blocks that are read. `plans` is the code's slice of slices.

The run takes sizes 1..7, block sizes 1..3, 1..4 workers and 1..3 queue lanes (a
random plan: at most four blocks, fewer than four workers and two lanes), so
blocks do and do not divide the size, and workers do and do not divide the
blocks. It shows: operations never overlap (`OperationsAreDisjoint`), regions
ascend with the worker (`RegionsAscend`), a finished plan covers the file exactly
(`PlanCoversFile`), the reads are the rounded percentage (`ReadShareIsRounded`), the lanes of a
worker take each of its operations once (`LanesShareOutPlan`) and no worker gets
more than one operation more than another (`LoadIsBalanced`).

### LaneEngine

`pc` says where each lane goroutine stands; an action is what happens between two
points where goroutines interact: reading the context, reading the clock,
performing an operation, the rendezvous on the unbuffered channel, cancelling,
changing the wait group. `waiter` is the goroutine that waits and closes the
channel, `collector` the caller that drains it, `parentCancelled` and `cancelled`
the caller's context and the derived one; that the second follows the first is a
step of its own, since `context` propagates asynchronously. `performed` and `late`
are history.

The run has two workers with two queue slots each: worker 0 has two operations,
one per lane, worker 1 has one, so its second lane is empty and never starts. It
is made with and without a duration, with at most two passes per lane
(`MaxCycles`: a timed lane at the end of that pass waits for the deadline or a
cancellation; later passes are like the second), any operation failing, cancellation and deadline at any
moment. It shows: `context.Canceled` only for a cancellation of the caller's
(`CancellationIsTheCallers`; this is why a lane sends its result *before* it
cancels the others); a failure is never lost (`FailureIsReported`); success
means that every operation was performed, also when a duration is shorter than a
pass (`SuccessCoversPlan`), and every result counted (`SuccessCountsPlan`); a
lane begins at most one operation under a cancelled context
(`LateWorkIsBounded`); the channel is closed after the last lane has left
(`ClosedAfterLastLane`); the whole implements `OperationBatch`
(`ImplementsBatch`); and it returns (`Terminates`).

Fairness: weak fairness of every goroutine's steps, which Go's scheduler gives
runnable goroutines, and of the propagation of a cancellation. Operations are
assumed to return, as the code does. Nothing is assumed of the clock or of the
caller's context, and no operation has to fail: `Terminates` is about a call that
is untimed, or whose deadline has passed, whose context is cancelled or that met
an error.

### Runner

A step ends with the context check that follows it in the code: it goes on, or
fails with `context.Canceled` if the context is cancelled and with an error of
the operating system if not (an error that precedes the cancellation is a step
before it). Only the creation of the file is followed by no check. `disk` says for each test file that exists which of
its blocks hold data; a file is as long as its last such block, so that
`preparePopulatedFile`, which compares only the size, could be deceived by a file
with holes. `err` is the set of causes joined with `errors.Join`.

The run has a warm-up and two iterations over four selections of one to three
workloads (write then read, mixed then overwrite, read then fsync then mixed,
fsync alone), on a file of three blocks (a hole, data after it, and the last
block). Of the workloads that need a populated file, reads and mixed ones come
first and after one that has truncated it, overwrites after one that has not; of
those that truncate it, writes come first, fsyncs first and after a read. It
shows that reading workloads run on populated files (`ReadsHitData`), a file
that is left is wanted and complete or its removal has failed and is reported
(`LeftFilesAreExplained`), a successful report is complete and names the files
that exist (`ReportIsComplete`), and no iteration leaves its file open
(`NoHandleIsLeft`).

`RunnerCancelled.cfg` shows a disagreement with `runner_test.go:309`: a run that
returns `context.Canceled` can retain a kept file. The cleanup looks at the
context at `runner.go:121` and keeps the file; `Run` looks again at lines 86 and
93 and discards the report that names it.

### Service

A call is a goroutine. What it does under the inner mutex is one action;
`eventMu`, which the code holds from a state change until its events are out, is
a variable, and each event is emitted by a step of its own. `events` is the log
of everything emitted, and `result` what each call returns. A request is valid,
invalid or in need of confirmation; a run returns success, an I/O error (which
stands for every error without a cancellation in it), or `context.Canceled`,
alone or joined with a failed removal, and the latter only under a cancelled
context.

`ServiceCalls.cfg` lets three starts and two cancellations race, enough for a
call that is refused, one that follows, a cancellation that names an earlier run,
and two cancellations of one run; calls are interchangeable, so it uses symmetry.
It shows that a call owns the active run until it finishes it
(`CallOwnsActiveRun`), an accepted cancellation is what the run is returned as
(`CancelIsHonoured`), results, errors included, agree with the events
(`ResultMatchesEvents`), and the kept report is that of the last completed run
(`LastReportIsKept`). One error no event shows: `StartBenchmark` returns the
missing confirmation whatever `finishRun` decided (`service.go:121-122`), so a
run cancelled while its request was validated is returned as cancelled with that
error beside it. The other paths look at the state first and return a cancelled
run without an error.
`ServiceLifecycle.cfg`, with two starts and without symmetry, shows that the
events implement `RunLifecycle`, and that every run is shown to end
(`EveryRunEnds`). `MaxProgress` bounds the progress events of a run; two of them
make a progress event follow another.

Fairness: weak fairness of the steps of a call that has begun. Weak fairness of
acquiring `eventMu` is enough, since the other calls hold it finitely often (and
Go's mutex does not starve a waiter). Nobody has to call the service.

`ServiceCleanup.cfg` shows a disagreement with `README.md:337-338`: a cancelled
run whose test file could not be removed is returned as cancelled, with no error
and no failed event (`service.go:133-136`).

### Desktop

`ui` is the reducer's state with its data left out: a report or a progress is
the run it belongs to, an error is there or not, `confirmation` says whether
there is an assessment to show. The submitted request is `confirmed`, the one
field anything depends on. `calls` are the calls of `StartBenchmark` the form has
made; `Service` executes them. Events reach the page in the order they were
emitted, each at any time after it; the answer of a call reaches it at any time
after the call has returned, before, between or after the events, and so does
that of a cancellation. A validation rejects the request, asks for a
confirmation or lets the form call `StartBenchmark` at once.

The run allows two calls of `StartBenchmark` and one of `CancelBenchmark`, which
is enough for a new run to meet the events, the answer and the cancellation of an
old one, and one progress event per run. The form is submitted only while a call
is left. It shows that the run on the page is the one asked for last, with the
outcome its events have shown (`PageShowsItsRun`); the report on the page can be
exported (`ShownReportCanBeExported`); `StartBenchmark` is never refused, since
the form is locked as long as the service has a run (`StartIsNeverRefused`);
late events and answers do not change a retired run's outcome
(`FinishedStaysFinished`); and a locked page is released (`PageIsReleased`).

Fairness: calls that have been made are executed, and events and answers are
delivered, as the Wails runtime does. The user need never act, so a dialog may
stay open; it counts as a release.

Two assumptions are constants. `Hasty` is FALSE in the runs: the user does not
act between the delivery of a run's last state event and of the event that
carries its outcome, which `finishRun` emits back to back under `eventMu`. With
TRUE, `PageShowsItsRun` is violated: the page is unlocked by the state event, and
if a new run is requested before the outcome event, that event, of a run not yet
retired, is accepted as the new run's while the page does not know its id
(`state.ts:302`). `SuiteEdited` is FALSE in the first run. With TRUE, in
`DesktopEdited.cfg`, `StartBenchmark` can itself ask for a confirmation, and
`ConfirmationCanBeGiven` is violated: the status becomes awaiting-confirmation
with no assessment, so the form is locked and no dialog is shown
(`state.ts:289`, `BenchmarkForm.tsx:739`), and no transition leads out.

### WorkloadSuites, Requests and Submission

A request is a record of values. A text that stands for a number is that number
or `Garbled`; a seed is a notation and two digits, since the service reads it in
base 10 (`service.go:308`) and the flag as a literal, whose prefix, leading zero
or underscores count (`main.go:50`); a size is a count of tenths and a unit, so that fractions, zero,
unknown units and overflow occur; words are small (`MaxInt` is 31, the larger
unit 4, the threshold of large working sets 5). An error is the set of the
phrases in its message that `configErrorField` looks for, and the checks are a
sequence of which the first that fails counts, in the order of the code. A suite
file decodes or not, and has specs whose optional fields are sequences of at most
one element. `disk` is what a file system has available, the alignment of its direct I/O (0:
it cannot be told), and the telling words of what the platform says in that case,
which `configureIOMode` wraps (`io.go:16-19`): on Linux "invalid block size"
(`direct_linux.go:18`), or "no such file or directory".

`Submission` takes such a request through `SelectSuiteFile`,
`ValidateBenchmark`, the confirmation and `StartBenchmark`, while the suite file
and the disk change at any time after the validation. The run takes the default
request with every one or two of its fields set to an unusual value, every
one-spec suite of a small vocabulary, suites with colliding names, of another
version or that do not decode, and five disks: two that are aligned, one nearly
full, and three whose alignment cannot be told, with different words. The seeds
include texts both front ends read alike, `010`, which is 10 to one and 8 to the
other, and texts that only one accepts (`09`, `0x1f`, `1_0`). Two fields are enough, since no
check relates more than two, and pairs decide which of two errors comes first.

It shows that what runs without a confirmation is small, untimed, measured once
and without fsyncs, whatever was edited (`UnconfirmedRunIsModest`); that the form
marks a field whose change makes the error go away (`BlamedFieldIsAtFault`),
though the field is found by words of the message and one message may name
several; that the command line and the service run the same workloads with the
same configuration for the same request (`FrontEndsAgree`; the flag of the
command line that is not given stands for the form's default), unless its seed
has a leading zero, a prefix or an underscore, and that even then two accepted
requests differ in nothing but the seed; and that nothing
overflows into a configuration that runs (`TypeOK`; `ParseBytes` does let
`MaxInt + 1` wrap, and `Validate` refuses the negative size).

One error is an exception of `BlamedFieldIsAtFault`: when the alignment of direct
I/O cannot be told, the words of the platform may mark the block size or the
directory. No block size cures it; only the mode does, and the property says so
(`AlignmentIsUnknown`).

`SubmissionWarmups.cfg` shows that `assessWriteImpact` looks only at measured
iterations (`safety.go:39`): a run with two warm-ups executes its workloads three
times and needs no confirmation, while the page says that repeated workloads
write substantially more (`BenchmarkForm.tsx:705`).

### ReportExport

A call of `ExportReport` checks its request, takes the report, asks for a
destination, creates a temporary file beside it, renders, syncs, closes, renames
and removes. Each step on the file system may fail. The content of a file is the
number of records it holds: a CSV record stays in a buffer or is written, a
failed write leaves any prefix and its error surfaces at that write or at the
flush; JSON is written at once. `Crash` stops the application, or the machine
with it, in which case what was not synced is lost; a rename is atomic. The file
is synced before the rename, the directory never (`export.go:101-104`). A machine
that stops may therefore undo what has happened to a name since it was started:
`earlier` holds the contents a destination has had, any of which may be back
afterwards, `unlinked` what a temporary file was when its name went, and it may
be gone or be back too (`revived`). Each name is on its own, which admits more than
an ordered journal would. Runs complete meanwhile and replace the report the
service keeps.

The run has two exports, two destinations (an export may choose the other's, or
type no extension and get its own), two records, two runs and one crash. It shows
that `ReportExport` implements `ReportFiles` (`ImplementsReportFiles`): a
destination only ever holds what it held before or the whole report asked for,
never a part of one, and an export that returns without an error has put it
there, as `README.md:189-190` promises. It stays there until another export
replaces it or the machine stops: then the destination may have again a content
it had since the machine was started, although the export has succeeded, and
`ReportFiles` promises no more than that. The run also shows that an export that
has returned has no file open and no temporary file left, unless removing it
failed, which it reports, or a stop of the machine has brought it back
(`TemporariesAreRemoved`). A crash may leave a temporary file; nothing looks for
it later. The extension is appended after the dialog (`export.go:61`), so a file
of the longer name is replaced although the dialog cannot have asked about it;
no documentation says otherwise, so no property does.

## The proofs

All theorems hold for every value of the constants that the modules' `ASSUME`s
admit: any number of workers, lanes, calls, exports, rounds and blocks, and every
request, suite file and disk. The assumptions say no more than what the constants
stand for: `InputsAssumption` what `Config.Validate` admits, `EngineAssumption`
that plans are sequences of operations, `RunnerAssumption` that a run has an
iteration and a suite a workload, `ServiceAssumption` that calls are told apart,
`RequestsAssumption` that the words have a largest number and a garbled text is
none of them, `SubmissionAssumption` and `ReportExportAssumption` the types of
requests, files and disks, `DesktopAssumption` that its two switches are Booleans.
`ProperAssumption` is about the values `BlamedFieldIsAtFault` may put in a field:
for each check there is one that passes it, on every disk. It excludes a disk
without a byte left, for which no size helps the user.
Each inductive invariant was first checked by TLC as an invariant of the
component's run.

| Module | Theorems about the runs' properties |
| --- | --- |
| `OperationPlanProofs` | `TypeOK`, `OperationsAreDisjoint`, `RegionsAscend`, `PlanCoversFile`, `ReadShareIsRounded`, `LanesShareOutPlan`, `LoadIsBalanced` |
| `LaneEngineProofs` | `TypeOK`, `CancellationIsTheCallers`, `FailureIsReported`, `SuccessCoversPlan`, `SuccessCountsPlan`, `LateWorkIsBounded`, `ClosedAfterLastLane`, `ImplementsBatch` |
| `RunnerProofs` | `TypeOK`, `ReadsHitData`, `LeftFilesAreExplained`, `ReportIsComplete`, `NoHandleIsLeft` |
| `ServiceProofs` | `TypeOK`, `CallOwnsActiveRun`, `CancelIsHonoured`, `ResultMatchesEvents`, `LastReportIsKept`, `ImplementsLifecycle` |
| `SubmissionProofs` | `TypeOK`, `UnconfirmedRunIsModest`, `BlamedFieldIsAtFault`, `FrontEndsAgree` |
| `ReportExportProofs` | `TemporariesAreRemoved`, `ImplementsReportFiles` |
| `DesktopProofs` | `DesktopTypeOK`, `FinishedStaysFinished`; for a user who is not `Hasty`: `PageShowsItsRun`, `ShownReportCanBeExported`, `StartIsNeverRefused` |

**Operations and plans.** `OperationsProofs` has the lemmas about integer division
and about the operators: blocks are disjoint and in the file, `workerOf` is
monotonic and names a worker that exists, lanes index only operations that
exist. Disjointness is not inductive alone: the invariant adds that every
operation of a plan is that of a placed block, in the plan of the worker that
`workerOf` names. For the properties of finished plans, `CountInv` adds the
converse and counts: every placed block has its operation, a worker has as many
operations as it has placed blocks, and the reads are as many as the set of
indices that read. A finished plan has placed every block, and the blocks a
worker owns are an interval whose length is known up to one.

**Lane engine.** The invariant has four parts besides the types: `WaitInv` (the
wait group counts the lanes that were spawned and have not left), `ErrorInv` (an
internal cancellation is preceded by a received failure, and a failure is in a
lane's hand or in `firstError`), `PlanInv` (a lane has performed what lies before
its position, and everything once it is past its first pass) and `BoundInv` (a
lane that has begun an operation late is past its context check). The count is
another invariant: what the collector has summed up is the sum over the lanes of
whole passes times the operations of a lane, plus what lies before the lane's
position (`CountInv`). It needs that a sum over a finite set changes with one
summand, which is proved of the recursive function behind `SumFunction` by least
counterexamples: numbers have a least element (`LeastNumber`, from the library's
well-foundedness), so finite sets of subsets are reached one element at a time
(`SubsetInduction`).

**Runner.** The invariant says at every step of an iteration which test files
exist, what is in the open one, what has failed and what has been measured. Its
heart is that a test file is empty or holds data everywhere for as long as nothing
has failed: that is why comparing its size suffices.

**Service.** The properties speak of the events listeners have been shown, and
fail while a call still holds `eventMu` with events to emit. The invariant
speaks of *decided* events, which are shown or pending: a decision is one step
with the change of state it announces, and emitting changes nothing about it.
`LogInv` says how the events a call has pending continue the last event shown;
with it every step maps to a step of `RunLifecycle` or to a stutter.

**Export.** The invariant says for each place of a call what it has made of its
temporary file. A rename is reached only with a whole and synced report, so every
content a destination has or had survives a stop of the machine as it is: it is
no file, a file that is no report, or a whole and synced report. That is why
undoing renames brings back only such contents, and never a part of a report
(`FilesInv`, `FoundIsSane`). A failure on the way leads to the removal, which
reports its own failure.

**Submission.** Nothing about a running benchmark depends on what was validated:
the invariant is that the answer a run is started with was built from the request,
the suite file and the disk as they were in that one step, after the last
chance to edit them, and was confirmed if it has reasons. The rest is about the
operators: what it means that the first error of a list of checks is none, what
loaded suites contain, and that `buildBenchmark` and the command line reach the
same selection and configuration, up to the seed (`SameSeed` says when that is
the same too; `SeedIsCarried` that nothing else depends on it). For `BlamedFieldIsAtFault`, `BlameMeans` lists
what each error says of the request: the field `configErrorField` finds by the
first phrase of its list is traced through every message (`FieldsOfErrors`), and
a proper value in that field contradicts what this error means
(`BlamedFieldHasRemedy`). A block size larger than the file needs that the
checks are made in order: the size is known to be positive by then. An alignment that
cannot be told is the error of direct I/O alone (`OnlyDirectNeedsAlignment`), so
buffered I/O cures it (`BufferedNeedsNoAlignment`).

**Desktop.** `DesktopProofs` extends the invariant of the service. Every run but
the one asked for last is over and retired, so nothing received of it is accepted;
the page knows no run but that one; a run whose end has been delivered is
retired; the service emits the end of a run right behind its last state. The
last fact is what a `Hasty` user defeats: with `Hasty`, `PageShowsItsRun` is false
(see above), so three theorems have the hypothesis `~Hasty`, which is how the
runs set it. The types, `FinishedStaysFinished` and `DesktopRunsService` need no
hypothesis. `DesktopRunsService` states that page and service together are a behaviour of `Service`,
so its theorems hold behind the page.

Only model-checked:

- Liveness (`Terminates`, `EveryRunEnds`, `PageIsReleased`), which the prover
  does not handle.
- The four documented disagreements, which are counterexamples.

## Plan

Done: 1. `Operations`, `OperationPlan`; 2. `LaneEngine` over `OperationBatch`;
3. `Runner`; 4. `Service` over `RunLifecycle`; 5. `Desktop` over `Service`;
6. `WorkloadSuites`, `Requests`, `Submission`; 7. `ReportExport` over
`ReportFiles`; the proofs of the safety properties and refinements of all of
them.

To do:

1. The contracts by which modules are composed, as theorems: that the files and
   errors `Runner` takes from a workload are those `OperationBatch` admits.
2. The page under a `Hasty` user: what still holds of it.

## Not modelled

- The system calls behind direct I/O, cache control and free space, and the
  floating-point statistics of `result.go`.
- The latency histogram and `saturatingProduct`: arithmetic without state; a
  model of them over small words would be a second copy of the code.
- Formatting: the columns of the reports, `FormatBytes`, the copies in
  `app/report.go`. Decoding of JSON succeeds or not.
- The bytes of the test file: `Runner` knows which blocks hold data.
- In the frontend: calls rejected by Wails itself (`rpc-rejected`,
  `cancel-rejected`), which the service never causes; inspections of
  directories, which the form uses only for the directory they were made of; local validation;
  the rendering of progress and results, with its paging.
- Recovery of test files left by a killed process: there is none.
