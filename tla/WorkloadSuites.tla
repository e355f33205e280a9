--------------------------- MODULE WorkloadSuites ---------------------------
(***************************************************************************)
(* What a selection of workloads stands for: the suite files of            *)
(* src/suite/load.go, the built-in workloads of src/workloads/select.go    *)
(* and the ConfiguredWorkload of src/benchmark/workload.go.                *)
(*                                                                         *)
(* An optional value is a sequence of at most one element.  A name is a    *)
(* sequence of words.  A duration is a number of seconds, or Garbled when  *)
(* its text cannot be parsed.                                              *)
(***************************************************************************)
EXTENDS Integers, SequencesExt

CurrentVersion == 1
Garbled == -1000
Types == {"sequential", "sequential-write", "sequential-read", "random", "overwrite", "fsync-write"}

-----------------------------------------------------------------------------
(* Workloads *)

Plain(kind) == [kind |-> kind, readPercent |-> << >>, seed |-> << >>,
                duration |-> << >>, label |-> << >>]

\* RandomMixed.Name tells its overrides apart, the other workloads have none.
kindName(workload) ==
  <<workload.kind>> \o [i \in DOMAIN workload.readPercent |-> ToString(workload.readPercent[i])]
                    \o [i \in DOMAIN workload.seed |-> "seed " \o ToString(workload.seed[i])]

IsTimed(workload) == workload.duration # << >> /\ workload.duration[1] > 0

Name(workload) ==
  IF workload.label # << >> THEN workload.label
  ELSE kindName(workload) \o
         (IF IsTimed(workload) THEN <<ToString(workload.duration[1]) \o "s">> ELSE << >>)

\* The duration the workload runs for, where config.Duration is the default.
apply(workload, default) ==
  IF workload.duration = << >> THEN default ELSE workload.duration[1]

-----------------------------------------------------------------------------
(* Suite files.  A spec has a type, a name and the optional duration,        *)
(* readPercent and seed; a file decodes or not.                              *)

InvalidSpec(spec) ==
  \/ spec.duration # << >> /\ spec.duration[1] < 0
  \/ spec.type # "random" /\ (spec.readPercent # << >> \/ spec.seed # << >>)
  \/ spec.readPercent # << >> /\ spec.readPercent[1] \notin 0..100
  \/ spec.type \notin Types

configure(kind, spec, label) ==
  [Plain(kind) EXCEPT !.duration = spec.duration, !.label = label]

workloads(spec) ==
  CASE spec.type = "sequential" ->
         LET label(word) == IF spec.name = << >> THEN << >> ELSE Append(spec.name, word)
         IN  <<configure("Sequential write", spec, label("write")),
               configure("Sequential read", spec, label("read"))>>
    [] spec.type = "sequential-write" -> <<configure("Sequential write", spec, spec.name)>>
    [] spec.type = "sequential-read" -> <<configure("Sequential read", spec, spec.name)>>
    [] spec.type = "random" ->
         <<[configure("Random mixed", spec, spec.name) EXCEPT
              !.readPercent = spec.readPercent, !.seed = spec.seed]>>
    [] spec.type = "overwrite" -> <<configure("Sequential overwrite", spec, spec.name)>>
    [] spec.type = "fsync-write" -> <<configure("Fsync-per-block write", spec, spec.name)>>

Failure == [error |-> TRUE, workloads |-> << >>, version |-> 0]
Success(list, version) == [error |-> FALSE, workloads |-> list, version |-> version]

\* WorkloadList: names must differ, because results are summarised by name.
WorkloadList(file) ==
  IF \/ file.version # CurrentVersion
     \/ file.workloads = << >>
     \/ \E i \in DOMAIN file.workloads : InvalidSpec(file.workloads[i])
  THEN Failure
  ELSE LET list == FlattenSeq([i \in DOMAIN file.workloads |-> workloads(file.workloads[i])])
       IN IF \E i, j \in DOMAIN list : i # j /\ Name(list[i]) = Name(list[j])
          THEN Failure ELSE Success(list, CurrentVersion)

Load(file) == IF file.decodes THEN WorkloadList(file) ELSE Failure

-----------------------------------------------------------------------------
(* Selection *)

all == <<Plain("Sequential write"), Plain("Sequential read"), Plain("Random mixed"),
         Plain("Sequential overwrite"), Plain("Fsync-per-block write")>>

BuiltIn(name) ==
  CASE name \in {"", "sequential"} -> Success(SubSeq(all, 1, 2), 0)
    [] name \in {"random", "mixed"} -> Success(<<all[3]>>, 0)
    [] name = "overwrite" -> Success(<<all[4]>>, 0)
    [] name = "fsync" -> Success(<<all[5]>>, 0)
    [] name = "all" -> Success(all, 0)
    [] OTHER -> Failure

\* file is the optional content of the suite file the selection names.
Select(builtIn, file) ==
  IF file = << >> THEN BuiltIn(builtIn)
  ELSE IF builtIn = "" THEN Load(file[1]) ELSE Failure
=============================================================================
