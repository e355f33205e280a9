------------------------------ MODULE Requests ------------------------------
(***************************************************************************)
(* How a request becomes a configuration and its workloads: buildBenchmark *)
(* and configErrorField of src/app/service.go with ValidateConfig and      *)
(* InspectDirectory of src/benchmark, the assessment of the write impact   *)
(* in src/app/safety.go, and the flags of src/cmd/diskbenchmark/main.go.   *)
(*                                                                         *)
(* Sizes are numbers of bytes on a machine with small words; a text that   *)
(* stands for a number is that number, or Garbled.  A directory is named   *)
(* by what it is; disk says what its file system offers.                   *)
(***************************************************************************)
EXTENDS WorkloadSuites

CONSTANTS
  MaxInt,                   \* the largest signed integer
  KIB,                      \* the bytes of the larger unit
  LargeWorkingSetThreshold

ASSUME RequestsAssumption ==
  /\ MaxInt \in Nat /\ -(MaxInt + 1) > Garbled
  /\ KIB \in 1..MaxInt
  /\ LargeWorkingSetThreshold \in 1..MaxInt

-----------------------------------------------------------------------------
(* Byte units.  A size text has a number, counted in tenths, and a unit.     *)

multipliers == [B |-> 1, KiB |-> KIB]

\* The limit is compared as a float and lets MaxInt + 1 pass, which wraps.
ParseBytes(text) ==
  IF text.tenths <= 0 \/ text.unit \notin DOMAIN multipliers THEN Garbled
  ELSE LET bytes == text.tenths * multipliers[text.unit]
       IN CASE bytes > 10 * (MaxInt + 1) -> Garbled
            [] bytes % 10 # 0 -> Garbled
            [] bytes = 10 * (MaxInt + 1) -> -(MaxInt + 1)
            [] OTHER -> bytes \div 10

-----------------------------------------------------------------------------
(* Random seeds.  A text has two digits, of which the first may be missing,  *)
(* and a notation, or none that ParseInt knows: "010" has a leading zero,    *)
(* "0x10" a prefix and "1_0" an underscore.  Signs are left out.             *)

decimal == [plain |-> 10, leadingZero |-> 10]
literal == [plain |-> 10, leadingZero |-> 8, prefixed |-> 16, underscored |-> 10]

\* strconv.ParseInt, with the base each notation has: decimal is its base 10,
\* literal its base 0.
ParseInt(text, bases) ==
  IF text.notation \notin DOMAIN bases THEN Garbled
  ELSE LET base == bases[text.notation]
           number == base * text.high + text.low
       IN IF text.high < base /\ text.low < base /\ number <= MaxInt THEN number ELSE Garbled

\* The seed of the form, and that of the flag.
serviceSeed(request) == ParseInt(request.randomSeed, decimal)
flagSeed(request) == ParseInt(request.randomSeed, literal)

-----------------------------------------------------------------------------
(* Validation.  An error is the set of the telling phrases of its message.   *)

Check(wrong, error) == [wrong |-> wrong, error |-> error]

\* The error of the first check that fails, or fine.
FirstError(checks, fine) ==
  LET i == SelectInSeq(checks, LAMBDA check : check.wrong)
  IN IF i = 0 THEN fine ELSE checks[i].error

\* Config.Validate, configureIOMode.  disk.alignment is 0 if it cannot be told, and
\* disk.complaint the telling phrases of what the platform says then: on Linux
\* "invalid block size", or "no such file or directory" of a directory that has gone.
configErrors(config, disk) == <<
  Check(config.directory = "", {"directory"}),
  Check(config.size <= 0, {"data size"}),
  Check(config.blockSize <= 0, {"block size"}),
  Check(config.blockSize > config.size, {"block size", "data size"}),
  Check(config.iterations <= 0, {"iterations"}),
  Check(config.warmupIterations < 0, {"warm-up", "iterations"}),
  Check(config.duration < 0, {"duration"}),
  Check(config.workers < 0, {"workers"}),
  Check(config.queueDepth < 0, {"queue depth"}),
  Check(config.randomReadPercent \notin 0..100, {"random read"}),
  Check(config.directory = "missing", {"directory"}),
  Check(config.directory = "file", {"benchmark path"}),
  Check(config.ioMode = "direct" /\ disk.alignment <= 0, {"I/O"} \cup disk.complaint),
  Check(config.ioMode = "direct" /\ disk.alignment > 0 /\ config.blockSize % disk.alignment # 0,
        {"I/O", "block size"}),
  Check(config.ioMode = "direct" /\ disk.alignment > 0 /\ config.size % disk.alignment # 0,
        {"I/O", "data size"})>>

ValidateConfig(config, disk) == FirstError(configErrors(config, disk), {})

\* Faulty: a zero is left for the runner.
unnormalized(config) == config

normalized(config) ==
  [config EXCEPT !.workers = IF @ = 0 THEN 1 ELSE @, !.queueDepth = IF @ = 0 THEN 1 ELSE @]

phraseFields == <<
  <<"directory", "directory">>, <<"benchmark path", "directory">>, <<"block size", "blockSize">>,
  <<"data size", "size">>, <<"warm-up", "warmupIterations">>, <<"iterations", "iterations">>,
  <<"duration", "duration">>, <<"workers", "workers">>, <<"queue depth", "queueDepth">>,
  <<"random read", "randomReadPercent">>, <<"I/O", "ioMode">>, <<"cache control", "cacheControl">> >>

fieldOfPhrases(error, phrases) ==
  LET i == SelectInSeq(phrases, LAMBDA entry : entry[1] \in error)
  IN IF i = 0 THEN "" ELSE phrases[i][2]

\* Faulty: the phrases are looked for in another order.
configErrorFieldReversed(error) == fieldOfPhrases(error, Reverse(phraseFields))

configErrorField(error) == fieldOfPhrases(error, phraseFields)

Config(request, seed, selection) ==
  [directory |-> request.directory, size |-> ParseBytes(request.size),
   blockSize |-> ParseBytes(request.blockSize), iterations |-> request.iterations,
   warmupIterations |-> request.warmupIterations, workers |-> request.workers,
   queueDepth |-> request.queueDepth, randomReadPercent |-> request.randomReadPercent,
   randomSeed |-> seed, ioMode |-> request.ioMode,
   cacheControl |-> request.cacheControl, duration |-> request.duration,
   suiteVersion |-> selection.version]

IOModes == {"buffered", "direct"}
CacheControls == {"off", "attempt", "require"}

\* A ServiceError blames a field of the request, or none.
Blame(field, message) == [field |-> field, message |-> message]
Parse(wrong, field) == Check(wrong, Blame(field, {field}))
Accepted == Blame("none", {})

Rejected(blame) == [blame |-> blame, config |-> << >>, workloads |-> << >>]
Built(config, selection) ==
  [blame |-> Accepted, config |-> <<normalized(config)>>, workloads |-> selection.workloads]

\* suite is the content of the suite file, which the request names or not.
SelectionOf(builtIn, request, suite) ==
  Select(builtIn, IF request.suiteFile THEN <<suite>> ELSE << >>)

buildBenchmark(request, suite, disk) ==
  LET selection == SelectionOf(request.workload, request, suite)
      config == Config(request, serviceSeed(request), selection)
      invalid == ValidateConfig(normalized(config), disk)
      blame == FirstError(<<
        Parse(config.size = Garbled, "size"),
        Parse(config.blockSize = Garbled, "blockSize"),
        Parse(request.duration = Garbled, "duration"),
        Parse(config.randomSeed = Garbled, "randomSeed"),
        Parse(request.ioMode \notin IOModes, "ioMode"),
        Parse(request.cacheControl \notin CacheControls, "cacheControl"),
        Parse(selection.error, IF request.suiteFile THEN "suiteFile" ELSE "workload"),
        Check(invalid # {}, Blame(configErrorField(invalid), invalid)),
        Parse(request.directory = "unreadable", "directory"),
        Check(config.size > disk.available, Blame("size", {"disk space"}))>>, Accepted)
  IN IF blame = Accepted THEN Built(config, selection) ELSE Rejected(blame)

-----------------------------------------------------------------------------
(* Write impact *)

hasDurationWorkload(selected, default) ==
  default > 0 \/ \E i \in DOMAIN selected : IsTimed(selected[i])

hasFsyncWorkload(selected) ==
  \E i \in DOMAIN selected : selected[i].kind = "Fsync-per-block write"

assessWriteImpact(config, selected) ==
  {r \in {"large", "duration", "iterations", "fsync"} :
    CASE r = "large" -> config.size >= LargeWorkingSetThreshold
      [] r = "duration" -> hasDurationWorkload(selected, config.duration)
      [] r = "iterations" -> config.iterations > 1
      [] r = "fsync" -> hasFsyncWorkload(selected)}

-----------------------------------------------------------------------------
(* The command line: a flag for every field of the request.  -workload is    *)
(* given when request.workload is not empty, and is sequential otherwise.    *)

explicitWorkload(request) == request.workload # ""

\* Faulty: the default workload is handed over together with the suite.
builtInFlagKept(request) == IF explicitWorkload(request) THEN request.workload ELSE "sequential"

builtInFlag(request) ==
  IF explicitWorkload(request) THEN request.workload
  ELSE IF request.suiteFile THEN "" ELSE "sequential"

\* run of main.go, up to the workloads: flags that do not parse, the selection,
\* and the checks with which Runner.Run begins.
commandLine(request, suite, disk) ==
  LET selection == SelectionOf(builtInFlag(request), request, suite)
      config == Config(request, flagSeed(request), selection)
      refused ==
        \/ Garbled \in {request.duration, config.randomSeed, config.size, config.blockSize}
        \/ request.ioMode \notin IOModes
        \/ request.cacheControl \notin CacheControls
        \/ request.suiteFile /\ explicitWorkload(request)
        \/ selection.error
        \/ ValidateConfig(normalized(config), disk) # {}
        \/ request.directory = "unreadable"
        \/ disk.available < config.size
  IN IF refused THEN Rejected(Blame("", {})) ELSE Built(config, selection)
=============================================================================
