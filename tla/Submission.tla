----------------------------- MODULE Submission -----------------------------
(***************************************************************************)
(* The way of a request from the form to its run: a suite is chosen and    *)
(* summarised (SelectSuiteFile), ValidateBenchmark builds the request and  *)
(* assesses its write impact, the user confirms it, and StartBenchmark     *)
(* reads, builds and assesses everything once more.  In between, the suite *)
(* file may be edited and other programs may use up the disk.              *)
(***************************************************************************)
EXTENDS Requests

CONSTANTS
  InitialRequests,  \* requests as they can be made
  Proper,           \* for each field, values a valid request can have
  SuiteFiles,       \* contents of suite files
  Disks             \* what directories and their file systems can be

Optional(S) == {s \in Seq(S) : Len(s) <= 1}
Size == [tenths : Int, unit : STRING]
Seed == [notation : STRING, high : Nat, low : Nat]

Request ==
  [directory : STRING, size : Size, blockSize : Size, iterations : Int, warmupIterations : Int,
   workload : STRING, suiteFile : BOOLEAN, duration : Int, workers : Int, queueDepth : Int,
   randomReadPercent : Int, randomSeed : Seed, ioMode : STRING, cacheControl : STRING,
   confirmed : BOOLEAN]

WorkloadSpec ==
  [type : STRING, name : Seq(STRING), duration : Optional(Int), readPercent : Optional(Int),
   seed : Optional(Int)]

SuiteFile == [decodes : BOOLEAN, version : Int, workloads : Seq(WorkloadSpec)]

Disk == [available : Nat, alignment : Nat, complaint : SUBSET {"directory", "block size"}]

ASSUME SubmissionAssumption ==
  /\ InitialRequests \subseteq Request
  /\ SuiteFiles \subseteq SuiteFile
  /\ Disks \subseteq Disk

\* Every field has values the checks of buildBenchmark have nothing against; a disk
\* without a byte left has no proper size.
ASSUME ProperAssumption ==
  /\ {"directory", "size", "blockSize", "iterations", "warmupIterations", "workload", "suiteFile",
      "duration", "workers", "queueDepth", "randomReadPercent", "randomSeed", "ioMode",
      "cacheControl"} \subseteq DOMAIN Proper
  /\ Proper.directory \ {"", "missing", "file", "unreadable"} # {}
  /\ \A d \in Disks : \E text \in Proper.size : ParseBytes(text) \in 1..d.available
  /\ \E text \in Proper.blockSize : ParseBytes(text) = 1
  /\ \A d \in Disks, f \in {"size", "blockSize"} : d.alignment > 0 =>
       \E text \in Proper[f] : ParseBytes(text) % d.alignment = 0
  /\ Proper.iterations \cap (Nat \ {0}) # {}
  /\ \E name \in Proper.workload : ~BuiltIn(name).error
  /\ FALSE \in Proper.suiteFile
  /\ \A f \in {"warmupIterations", "duration", "workers", "queueDepth"} : Proper[f] \cap Nat # {}
  /\ Proper.randomReadPercent \cap 0..100 # {}
  /\ \E text \in Proper.randomSeed : ParseInt(text, decimal) # Garbled
  /\ "buffered" \in Proper.ioMode
  /\ Proper.cacheControl \cap CacheControls # {}

VARIABLES
  request,
  suite,   \* the content of the suite file the request names
  disk,
  phase,   \* "form", "invalid", "dialog", "starting", "refused", "running"
  answer   \* what buildBenchmark has made of the request, with the reasons to confirm

vars == <<request, suite, disk, phase, answer>>

NoSuite == [decodes |-> FALSE, version |-> 0, workloads |-> << >>]
NoAnswer == [built |-> Rejected(Accepted), reasons |-> {}]

\* What the service answers to the request as things are now.
answerNow ==
  LET built == buildBenchmark(request, suite, disk)
  IN [built |-> built,
      reasons |-> IF built.blame # Accepted THEN {}
                  ELSE assessWriteImpact(built.config[1], built.workloads)]

Init ==
  /\ request \in InitialRequests
  /\ suite \in IF request.suiteFile THEN SuiteFiles ELSE {NoSuite}
  /\ disk \in Disks
  /\ phase = "form"
  /\ answer = NoAnswer

\* SelectSuiteFile and BenchmarkForm.chooseSuite: a file that loads replaces the
\* built-in workload.
SelectSuiteFile ==
  /\ phase = "form" /\ ~request.suiteFile
  /\ \E file \in SuiteFiles : ~Load(file).error /\ suite' = file
  /\ request' = [request EXCEPT !.suiteFile = TRUE, !.workload = ""]
  /\ UNCHANGED <<disk, phase, answer>>

\* ValidateBenchmark: the form goes on unless the request is invalid.
ValidateBenchmark ==
  /\ phase = "form"
  /\ answer' = answerNow
  /\ phase' = CASE answer'.built.blame # Accepted -> "invalid"
                [] answer'.reasons # {} -> "dialog"
                [] OTHER -> "starting"
  /\ UNCHANGED <<request, suite, disk>>

Confirm ==
  /\ phase = "dialog"
  /\ request' = [request EXCEPT !.confirmed = TRUE]
  /\ phase' = "starting"
  /\ UNCHANGED <<suite, disk, answer>>

\* Other programs, and the user in another one, change the files.
Edit ==
  /\ phase \in {"dialog", "starting"}
  /\ \/ request.suiteFile /\ suite' \in SuiteFiles /\ UNCHANGED disk
     \/ disk' \in Disks /\ UNCHANGED suite
  /\ UNCHANGED <<request, phase, answer>>

\* Faulty: what ValidateBenchmark has found is taken over.
StartAsValidated ==
  /\ phase = "starting"
  /\ answer' = [answerNow EXCEPT !.reasons = answer.reasons]
  /\ phase' = CASE answer'.built.blame # Accepted -> "refused"
                [] answer'.reasons # {} /\ ~request.confirmed -> "refused"
                [] OTHER -> "running"
  /\ UNCHANGED <<request, suite, disk>>

\* StartBenchmark, up to the run.
StartBenchmark ==
  /\ phase = "starting"
  /\ answer' = answerNow
  /\ phase' = CASE answer'.built.blame # Accepted -> "refused"
                [] answer'.reasons # {} /\ ~request.confirmed -> "refused"
                [] OTHER -> "running"
  /\ UNCHANGED <<request, suite, disk>>

Done == phase \in {"invalid", "refused", "running"} /\ UNCHANGED vars

Next == SelectSuiteFile \/ ValidateBenchmark \/ Confirm \/ Edit \/ StartBenchmark \/ Done

Spec == Init /\ [][Next]_vars

-----------------------------------------------------------------------------
(* Properties *)

Running == phase = "running"
config == answer.built.config[1]
selected == answer.built.workloads

\* The variables have their types, and a running benchmark has a configuration
\* the runner can work with: nothing overflowed on its way there.
TypeOK ==
  /\ phase \in {"form", "invalid", "dialog", "starting", "refused", "running"}
  /\ answer.reasons \subseteq {"large", "duration", "iterations", "fsync"}
  /\ Running =>
       /\ config.size \in 1..disk.available /\ config.blockSize \in 1..config.size
       /\ config.iterations > 0 /\ config.workers > 0 /\ config.queueDepth > 0
       /\ selected # << >>

\* Whatever has been edited since, a run nobody has confirmed measures a small
\* working set once, and none of its workloads repeats or syncs its writes.
UnconfirmedRunIsModest ==
  Running /\ ~request.confirmed =>
    /\ config.size < LargeWorkingSetThreshold
    /\ config.iterations = 1
    /\ \A i \in DOMAIN selected :
         /\ apply(selected[i], config.duration) = 0
         /\ selected[i].kind # "Fsync-per-block write"

\* The platform cannot tell the alignment of direct I/O.  What it says may have the
\* form mark another field than the mode.
AlignmentIsUnknown == disk.alignment = 0 /\ "I/O" \in answer.built.blame.message

\* The form marks a field the error is about: with some proper value in it, and
\* the rest of the request as it is, this error does not occur.  Only the error of
\* an unknown alignment is about the mode, whatever field is marked.
BlamedFieldIsAtFault ==
  phase = "invalid" =>
    LET blame == answer.built.blame
        field == IF AlignmentIsUnknown THEN "ioMode" ELSE blame.field
    IN  /\ blame.field \in DOMAIN Proper
        /\ \E value \in Proper[field] :
             buildBenchmark([request EXCEPT ![field] = value], suite, disk).blame # blame

\* The service and the command line accept the same requests and run the same
\* workloads with the same configuration for them, unless the seed is written as
\* only the flag, or only in another base, reads it.  Even then, if both accept a
\* request, nothing but the seed differs.
FrontEndsAgree ==
  phase = "form" =>
    LET service == buildBenchmark(request, suite, disk)
        flags == commandLine(request, suite, disk)
    IN  /\ request.randomSeed.notation \notin {"leadingZero", "prefixed", "underscored"} =>
             service.config = flags.config /\ service.workloads = flags.workloads
        /\ service.config # << >> /\ flags.config # << >> =>
             /\ service.workloads = flags.workloads
             /\ service.config[1] =
                  [flags.config[1] EXCEPT !.randomSeed = serviceSeed(request)]

\* README.md: "Elevated-impact configurations require an additional
\* confirmation."  A run that executes its workloads repeatedly has one.
RepeatedRunIsConfirmed ==
  Running /\ config.iterations + config.warmupIterations > 1 => request.confirmed
=============================================================================
