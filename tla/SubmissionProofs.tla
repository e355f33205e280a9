--------------------------- MODULE SubmissionProofs ---------------------------
(***************************************************************************)
(* What a run is known to be, for every request a form or a command line   *)
(* can make, every content of a suite file and every disk.                 *)
(*                                                                         *)
(* The lemmas follow a request on its way: what it means that the first    *)
(* error of a list of checks is none, what suite files hold after they     *)
(* were loaded, and what buildBenchmark and the command line accept.       *)
(***************************************************************************)
EXTENDS Submission, SequenceTheorems, WellFoundedInduction, TLAPS

\* Numbers have a least one: the form of induction the lemmas below use.
LEMMA LeastNumber ==
  ASSUME NEW T \in SUBSET Nat, T # {}
  PROVE  \E n \in T : \A m \in T : n <= m
<1>1. PICK R : R = OpToRel(<, Nat) /\ IsWellFoundedOn(R, Nat)
  BY NatLessThanWellFounded
<1>2. \A a, b \in Nat : a < b => <<a, b>> \in R
  BY <1>1 DEF OpToRel
<1>3. PICK n \in T : \A m \in T : ~(<<m, n>> \in R)
  BY <1>1, WFMin
<1>4. ASSUME NEW m \in T
      PROVE  n <= m
  <2>1. m \in Nat /\ n \in Nat /\ ~(m < n)
    BY <1>2, <1>3
  <2> QED
    BY <2>1
<1> QED
  BY <1>4

-----------------------------------------------------------------------------
(* Checks *)

\* No error is found if and only if no check fails.
LEMMA FirstErrorFound ==
  ASSUME NEW checks, Len(checks) \in Nat, NEW fine,
         \A i \in 1..Len(checks) : checks[i].wrong => checks[i].error # fine
  PROVE  FirstError(checks, fine) = fine <=> \A i \in 1..Len(checks) : ~checks[i].wrong
<1> DEFINE I == {i \in 1..Len(checks) : checks[i].wrong}
<1>1. SelectInSeq(checks, LAMBDA check : check.wrong) = IF I # {} THEN Min(I) ELSE 0
  BY DEF SelectInSeq
<1>2. CASE I = {}
  BY <1>1, <1>2 DEF FirstError
<1>3. CASE I # {}
  <2>1. I \in SUBSET Nat
    OBVIOUS
  <2>2. PICK n \in I : \A m \in I : n <= m
    BY <1>3, <2>1, LeastNumber
  <2>3. Min(I) \in I
    BY <2>2 DEF Min
  <2>4. Min(I) # 0 /\ checks[Min(I)].error # fine
    BY <2>3
  <2> QED
    BY <1>1, <1>3, <2>4 DEF FirstError
<1> QED
  BY <1>2, <1>3

-----------------------------------------------------------------------------
(* Suite files *)

\* Lists that are not empty are flattened to a list of their elements that is
\* not empty.
LEMMA FlattenType ==
  ASSUME NEW S, NEW seqs \in Seq(Seq(S) \ {<< >>}), seqs # << >>
  PROVE  FlattenSeq(seqs) \in Seq(S) \ {<< >>}
<1> DEFINE n == Len(seqs)
           List == Seq(S) \ {<< >>}
           Flattened(g, k) == g = [i \in 1..k |-> IF i = 1 THEN seqs[i] ELSE g[i - 1] \o seqs[i]]
<1>1. n \in Nat \ {0} /\ \A i \in 1..n : seqs[i] \in List
  <2>1. n \in Nat /\ n # 0
    BY EmptySeq
  <2> QED
    BY <2>1, ElementOfSeq
<1>2. ASSUME NEW a \in List, NEW b \in List
      PROVE  a \o b \in List
  <2>1. a \o b \in Seq(S) /\ Len(a \o b) = Len(a) + Len(b) /\ Len(a) \in Nat \ {0} /\ Len(b) \in Nat
    BY EmptySeq
  <2> QED
    BY <2>1
<1>3. ASSUME NEW g, NEW k \in 1..n, Flattened(g, k)
      PROVE  \A i \in 1..k : g[i] \in List /\ g[i] = IF i = 1 THEN seqs[i] ELSE g[i - 1] \o seqs[i]
  <2>1. \A i \in 1..k : g[i] = IF i = 1 THEN seqs[i] ELSE g[i - 1] \o seqs[i]
    <3> DEFINE h == [i \in 1..k |-> IF i = 1 THEN seqs[i] ELSE g[i - 1] \o seqs[i]]
    <3>1. \A i \in 1..k : h[i] = IF i = 1 THEN seqs[i] ELSE g[i - 1] \o seqs[i]
      OBVIOUS
    <3>2. g = h
      BY <1>3
    <3> HIDE DEF h
    <3> QED
      BY <3>1, <3>2
  <2> DEFINE Bad == {i \in 1..k : g[i] \notin List}
  <2>2. CASE Bad # {}
    <3>1. Bad \in SUBSET Nat
      OBVIOUS
    <3>2. PICK m \in Bad : \A i \in Bad : m <= i
      BY <2>2, <3>1, LeastNumber
    <3>3. m \in 1..n /\ m \in 1..k
      BY <1>1
    <3>4. CASE m = 1
      <4>1. g[m] = seqs[m]
        BY <2>1, <3>3, <3>4
      <4> QED
        BY <1>1, <3>3, <4>1
    <3>5. CASE m # 1
      <4>1. m - 1 \in 1..k /\ m - 1 \notin Bad
        BY <1>1, <3>2, <3>3, <3>5
      <4>2. g[m - 1] \in List /\ seqs[m] \in List
        BY <1>1, <3>3, <4>1
      <4>3. g[m] = g[m - 1] \o seqs[m]
        BY <2>1, <3>3, <3>5
      <4> QED
        BY <1>2, <4>2, <4>3
    <3> QED
      BY <3>4, <3>5
  <2> QED
    BY <2>1, <2>2
<1> HIDE DEF Flattened
<1> DEFINE Open == {k \in 1..n : ~\E g : Flattened(g, k)}
<1>4. ASSUME Open # {} PROVE FALSE
  <2>1. Open \in SUBSET Nat
    OBVIOUS
  <2>2. PICK m \in Open : \A k \in Open : m <= k
    BY <1>4, <2>1, LeastNumber
  <2>3. m \in 1..n /\ n \in Nat
    BY <1>1
  <2>4. CASE m = 1
    <3>1. PICK g : g = [i \in 1..m |-> seqs[i]]
      OBVIOUS
    <3>2. Flattened(g, m)
      BY <2>4, <3>1 DEF Flattened
    <3> QED
      BY <3>2
  <2>5. CASE m # 1
    <3>1. m - 1 \in 1..n /\ m - 1 \notin Open
      <4>1. m \in 1..n /\ m \in Nat
        BY <2>3
      <4> HIDE DEF Open
      <4> QED
        BY <2>2, <2>3, <2>5, <4>1
    <3>2. PICK g : Flattened(g, m - 1)
      BY <3>1
    <3>3. \A i \in 1..(m - 1) : g[i] = IF i = 1 THEN seqs[i] ELSE g[i - 1] \o seqs[i]
      BY <1>3, <3>1, <3>2
    <3>4. PICK h : h = [i \in 1..m |-> IF i = m THEN g[m - 1] \o seqs[m] ELSE g[i]]
      OBVIOUS
    <3>5. \A i \in 1..m : h[i] = IF i = 1 THEN seqs[i] ELSE h[i - 1] \o seqs[i]
      <4>1. ASSUME NEW i \in 1..m
            PROVE  h[i] = IF i = 1 THEN seqs[i] ELSE h[i - 1] \o seqs[i]
        <5>1. CASE i = m
          <6>1. m - 1 \in 1..m /\ m - 1 # m /\ m \in 1..m
            BY <2>3, <2>5
          <6>2. h[m] = g[m - 1] \o seqs[m] /\ h[m - 1] = g[m - 1]
            BY <3>4, <6>1
          <6> QED
            BY <2>5, <5>1, <6>2
        <5>2. CASE i # m
          <6>1. i \in 1..(m - 1) /\ h[i] = g[i] /\ (i # 1 => h[i - 1] = g[i - 1])
            BY <2>3, <3>4, <5>2
          <6> QED
            BY <3>3, <6>1
        <5> QED
          BY <5>1, <5>2
      <4> QED
        BY <4>1
    <3>6. Flattened(h, m)
      <4>1. DOMAIN h = 1..m /\ h = [i \in DOMAIN h |-> h[i]]
        BY <3>4
      <4> QED
        BY <3>5, <4>1 DEF Flattened
    <3> QED
      BY <3>6
  <2> QED
    BY <2>4, <2>5
<1>5. \E g : Flattened(g, n)
  <2>1. n \in 1..n
    BY <1>1
  <2>2. n \notin Open
    <3> HIDE DEF Open
    <3> QED
      BY <1>4
  <2> QED
    BY <2>1, <2>2
<1> DEFINE flatten == CHOOSE g : Flattened(g, n)
<1>6. Flattened(flatten, n)
  BY <1>5
<1>7. FlattenSeq(seqs) = flatten[n]
  BY <1>1 DEF FlattenSeq, Flattened
<1>8. flatten[n] \in List
  <2>1. n \in 1..n
    BY <1>1
  <2> HIDE DEF flatten
  <2> QED
    BY <1>3, <1>6, <2>1
<1> QED
  BY <1>7, <1>8

\* The provers do not know that a string constant is a string: the sets below
\* name those the model uses.
WorkloadKinds == {"Sequential write", "Sequential read", "Random mixed",
                  "Sequential overwrite", "Fsync-per-block write"}
Words == STRING \cup {"write", "read"}

\* A workload that lasts a time of its own lasts no negative time.
Workload == [kind : WorkloadKinds, readPercent : Optional(Int), seed : Optional(Int),
             duration : Optional(Nat), label : Seq(Words)]

\* The workloads a selection can be of.
Selection == Seq(Workload) \ {<< >>}

\* An optional value is there or not.
LEMMA OptionalValue ==
  ASSUME NEW S, NEW value \in Optional(S)
  PROVE  value = << >> \/ (value # << >> /\ value[1] \in S)
<1>1. value \in Seq(S) /\ Len(value) <= 1
  BY DEF Optional
<1>2. CASE value # << >>
  <2>1. Len(value) \in Nat /\ Len(value) # 0
    BY <1>1, <1>2, EmptySeq
  <2>2. 1 \in 1..Len(value)
    BY <2>1
  <2> QED
    BY <1>1, <1>2, <2>2, ElementOfSeq
<1> QED
  BY <1>2

\* What a valid spec stands for.
LEMMA SpecWorkloads ==
  ASSUME NEW spec \in WorkloadSpec, ~InvalidSpec(spec)
  PROVE  workloads(spec) \in Selection
<1>1. spec.duration \in Optional(Nat)
  <2>1. spec.duration \in Seq(Int) /\ Len(spec.duration) <= 1 /\ Len(spec.duration) \in Nat
    BY DEF WorkloadSpec, Optional
  <2>2. CASE spec.duration = << >>
    BY <2>1, <2>2 DEF Optional
  <2>3. CASE spec.duration # << >>
    <3>1. Len(spec.duration) = 1
      <4>1. Len(spec.duration) # 0
        BY <2>1, <2>3, EmptySeq
      <4>2. \A n \in Nat : n <= 1 /\ n # 0 => n = 1
        OBVIOUS
      <4> QED
        BY <2>1, <4>1, <4>2, Zenon
    <3>2. spec.duration[1] \in Nat
      <4>1. spec.duration[1] \in Int
        BY <2>1, <3>1, ElementOfSeq
      <4> QED
        BY <2>3, <4>1 DEF InvalidSpec
    <3>3. \A i \in 1..Len(spec.duration) : spec.duration[i] \in Nat
      BY <3>1, <3>2
    <3>4. spec.duration \in Seq(Nat)
      BY <2>1, <3>3
    <3> QED
      BY <2>1, <3>4 DEF Optional
  <2> QED
    BY <2>2, <2>3
<1>2. << >> \in Optional(Int) /\ << >> \in Optional(Nat) /\ << >> \in Seq(Words)
  BY DEF Optional
<1>3. spec.readPercent \in Optional(Int) /\ spec.seed \in Optional(Int) /\ spec.name \in Seq(Words)
  <2>1. spec.readPercent \in Optional(Int) /\ spec.seed \in Optional(Int) /\ spec.name \in Seq(STRING)
    BY DEF WorkloadSpec
  <2>2. \A i \in 1..Len(spec.name) : spec.name[i] \in Words
    BY <2>1, ElementOfSeq DEF Words
  <2> QED
    BY <2>1, <2>2
<1>4. ASSUME NEW kind \in WorkloadKinds, NEW label \in Seq(Words)
      PROVE  configure(kind, spec, label) \in Workload
  BY <1>1, <1>2, <1>4 DEF configure, Plain, Workload
<1>5. ASSUME NEW workload \in Workload
      PROVE  <<workload>> \in Selection
  <2>1. <<workload>> \in Seq(Workload) /\ Len(<<workload>>) = 1 /\ Len(<< >>) = 0
    OBVIOUS
  <2> QED
    BY <2>1 DEF Selection
<1>6. CASE spec.type = "sequential"
  <2> DEFINE label(word) == IF spec.name = << >> THEN << >> ELSE Append(spec.name, word)
  <2>1. ASSUME NEW word \in Words
        PROVE  label(word) \in Seq(Words)
    BY <1>2, <1>3
  <2>2. PICK a \in Workload, b \in Workload :
          workloads(spec) = <<a, b>>
    <3>1. workloads(spec) = <<configure("Sequential write", spec, label("write")),
                              configure("Sequential read", spec, label("read"))>>
      BY <1>6 DEF workloads
    <3> HIDE DEF label
    <3>2. label("write") \in Seq(Words) /\ label("read") \in Seq(Words)
      BY <2>1 DEF Words
    <3>3. /\ configure("Sequential write", spec, label("write")) \in Workload
          /\ configure("Sequential read", spec, label("read")) \in Workload
      BY <1>4, <3>2 DEF WorkloadKinds
    <3> QED
      BY <3>1, <3>3
  <2>3. <<a, b>> \in Seq(Workload) /\ Len(<<a, b>>) = 2 /\ Len(<< >>) = 0
    OBVIOUS
  <2> QED
    BY <2>2, <2>3 DEF Selection
<1>7. CASE spec.type \in {"sequential-write", "sequential-read", "overwrite", "fsync-write"}
  <2>1. PICK kind \in WorkloadKinds : workloads(spec) = <<configure(kind, spec, spec.name)>>
    <3>1. CASE spec.type = "sequential-write"
      BY <3>1 DEF workloads, WorkloadKinds
    <3>2. CASE spec.type = "sequential-read"
      BY <3>2 DEF workloads, WorkloadKinds
    <3>3. CASE spec.type = "overwrite"
      BY <3>3 DEF workloads, WorkloadKinds
    <3>4. CASE spec.type = "fsync-write"
      BY <3>4 DEF workloads, WorkloadKinds
    <3> QED
      BY <1>7, <3>1, <3>2, <3>3, <3>4
  <2> QED
    BY <1>3, <1>4, <1>5, <2>1
<1>8. CASE spec.type = "random"
  <2>1. workloads(spec) = <<[configure("Random mixed", spec, spec.name) EXCEPT
                               !.readPercent = spec.readPercent, !.seed = spec.seed]>>
    BY <1>8 DEF workloads
  <2>2. configure("Random mixed", spec, spec.name) \in Workload
    BY <1>3, <1>4 DEF WorkloadKinds
  <2>3. [configure("Random mixed", spec, spec.name) EXCEPT
           !.readPercent = spec.readPercent, !.seed = spec.seed] \in Workload
    BY <1>3, <2>2 DEF Workload
  <2> QED
    BY <1>5, <2>1, <2>3
<1>9. spec.type \in Types
  BY DEF InvalidSpec
<1> QED
  BY <1>6, <1>7, <1>8, <1>9 DEF Types

\* A suite file that loads holds workloads.
LEMMA LoadedWorkloads ==
  ASSUME NEW file \in SuiteFile, ~Load(file).error
  PROVE  Load(file).workloads \in Selection
<1> DEFINE list == FlattenSeq([i \in DOMAIN file.workloads |-> workloads(file.workloads[i])])
<1>1. Load(file) = WorkloadList(file) /\ ~WorkloadList(file).error
  BY DEF Load, Failure
<1>2. /\ file.workloads # << >>
      /\ \A i \in DOMAIN file.workloads : ~InvalidSpec(file.workloads[i])
      /\ WorkloadList(file) = Success(list, CurrentVersion)
  BY <1>1 DEF WorkloadList, Failure
<1>3. file.workloads \in Seq(WorkloadSpec)
  BY DEF SuiteFile
<1>4. DOMAIN file.workloads = 1..Len(file.workloads) /\ Len(file.workloads) \in Nat \ {0}
  <2>1. Len(file.workloads) \in Nat /\ Len(file.workloads) # 0
    BY <1>2, <1>3, EmptySeq
  <2> QED
    BY <1>3, <2>1
<1>5. \A i \in 1..Len(file.workloads) : workloads(file.workloads[i]) \in Selection
  BY <1>2, <1>3, <1>4, SpecWorkloads, ElementOfSeq
<1>6. PICK lists : lists = [i \in 1..Len(file.workloads) |-> workloads(file.workloads[i])]
  OBVIOUS
<1>7. lists \in Seq(Selection) /\ lists # << >>
  <2>1. lists \in [1..Len(file.workloads) -> Selection] /\ DOMAIN lists # {}
    <3>1. 1 \in 1..Len(file.workloads)
      BY <1>4
    <3> HIDE DEF workloads
    <3> QED
      BY <1>5, <1>6, <3>1
  <2>2. lists \in Seq(Selection)
    BY <1>4, <2>1
  <2> QED
    BY <2>1, <2>2
<1>8. list \in Selection
  BY <1>4, <1>6, <1>7, FlattenType DEF Selection
<1> QED
  BY <1>1, <1>2, <1>8 DEF Success

\* Every built-in workload is a workload.
LEMMA BuiltInWorkloads ==
  ASSUME NEW name, ~BuiltIn(name).error
  PROVE  BuiltIn(name).workloads \in Selection
<1>1. ASSUME NEW kind \in WorkloadKinds
      PROVE  Plain(kind) \in Workload
  <2>1. << >> \in Optional(Int) /\ << >> \in Optional(Nat) /\ << >> \in Seq(Words)
    BY DEF Optional
  <2> QED
    BY <2>1 DEF Plain, Workload
<1>2. PICK a \in Workload, b \in Workload, c \in Workload, d \in Workload, e \in Workload :
        all = <<a, b, c, d, e>>
  <2>1. /\ Plain("Sequential write") \in Workload /\ Plain("Sequential read") \in Workload
        /\ Plain("Random mixed") \in Workload /\ Plain("Sequential overwrite") \in Workload
        /\ Plain("Fsync-per-block write") \in Workload
    BY <1>1 DEF WorkloadKinds
  <2> HIDE DEF Plain
  <2> QED
    BY <2>1 DEF all
<1>3. all \in Seq(Workload) /\ Len(all) = 5
  BY <1>2
<1>4. /\ all \in Selection /\ SubSeq(all, 1, 2) \in Selection
      /\ <<all[3]>> \in Selection /\ <<all[4]>> \in Selection /\ <<all[5]>> \in Selection
  <2>1. ASSUME NEW list \in Seq(Workload), Len(list) # 0
        PROVE  list \in Selection
    BY <2>1, EmptySeq DEF Selection
  <2>2. SubSeq(all, 1, 2) \in Seq(Workload) /\ Len(SubSeq(all, 1, 2)) = 2
    BY <1>3, SubSeqProperties
  <2>3. ASSUME NEW i \in 1..5
        PROVE  <<all[i]>> \in Selection
    <3>1. all[i] \in Workload
      BY <1>3, ElementOfSeq
    <3>2. <<all[i]>> \in Seq(Workload) /\ Len(<<all[i]>>) = 1
      BY <3>1
    <3>3. Len(<<all[i]>>) # 0
      BY <3>2
    <3> QED
      BY <2>1, <3>2, <3>3, Zenon
  <2>4. all \in Selection
    <3>1. Len(all) # 0
      BY <1>3
    <3> QED
      BY <1>3, <2>1, <3>1, Zenon
  <2>5. SubSeq(all, 1, 2) \in Selection
    <3>1. Len(SubSeq(all, 1, 2)) # 0
      BY <2>2
    <3> QED
      BY <2>1, <2>2, <3>1, Zenon
  <2>6. <<all[3]>> \in Selection /\ <<all[4]>> \in Selection /\ <<all[5]>> \in Selection
    BY <2>3
  <2> QED
    BY <2>4, <2>5, <2>6
<1>5. BuiltIn(name) \in {Success(SubSeq(all, 1, 2), 0), Success(<<all[3]>>, 0), Success(<<all[4]>>, 0),
                         Success(<<all[5]>>, 0), Success(all, 0)}
  BY DEF BuiltIn, Failure
<1>6. BuiltIn(name).workloads \in {SubSeq(all, 1, 2), <<all[3]>>, <<all[4]>>, <<all[5]>>, all}
  BY <1>5 DEF Success
<1> QED
  BY <1>4, <1>6

\* The content of a suite file, as a selection is given it.
SuiteOf(r, s) == IF r.suiteFile THEN <<s>> ELSE << >>

\* A selection that succeeds is one of workloads.
LEMMA SelectedWorkloads ==
  ASSUME NEW builtIn, NEW r, NEW s \in SuiteFile, ~SelectionOf(builtIn, r, s).error
  PROVE  SelectionOf(builtIn, r, s).workloads \in Selection
<1>1. CASE ~r.suiteFile
  <2>1. SelectionOf(builtIn, r, s) = BuiltIn(builtIn)
    BY <1>1 DEF SelectionOf, Select
  <2> QED
    BY <2>1, BuiltInWorkloads
<1>2. CASE r.suiteFile
  <2>1. SelectionOf(builtIn, r, s) = IF builtIn = "" THEN Load(s) ELSE Failure
    <3>1. <<s>> # << >> /\ <<s>>[1] = s
      OBVIOUS
    <3> QED
      BY <1>2, <3>1 DEF SelectionOf, Select
  <2>2. Failure.error
    BY DEF Failure
  <2> QED
    BY <2>1, <2>2, LoadedWorkloads
<1> QED
  BY <1>1, <1>2

-----------------------------------------------------------------------------
(* What is accepted *)

\* A configuration without errors: the numbers are in their ranges.
LEMMA ValidNumbers ==
  ASSUME NEW settings, NEW device, ValidateConfig(settings, device) = {}
  PROVE  /\ ~(settings.size <= 0) /\ ~(settings.blockSize <= 0) /\ ~(settings.blockSize > settings.size)
         /\ ~(settings.iterations <= 0) /\ ~(settings.duration < 0)
         /\ ~(settings.workers < 0) /\ ~(settings.queueDepth < 0)
<1>1. PICK checks : checks = configErrors(settings, device)
  OBVIOUS
<1>2. /\ checks[2].wrong <=> settings.size <= 0
      /\ checks[3].wrong <=> settings.blockSize <= 0
      /\ checks[4].wrong <=> settings.blockSize > settings.size
      /\ checks[5].wrong <=> settings.iterations <= 0
      /\ checks[7].wrong <=> settings.duration < 0
      /\ checks[8].wrong <=> settings.workers < 0
      /\ checks[9].wrong <=> settings.queueDepth < 0
  BY <1>1 DEF configErrors, Check
<1>3. Len(checks) = 15
  BY <1>1 DEF configErrors, Check
<1>4. ASSUME NEW i \in 1..Len(checks)
      PROVE  checks[i].error # {}
  <2>1. i \in {1, 2, 3, 4, 5, 6, 7, 8, 9, 10, 11, 12, 13, 14, 15}
    BY <1>3
  <2>2. /\ checks[1].error # {} /\ checks[2].error # {} /\ checks[3].error # {} /\ checks[4].error # {}
        /\ checks[5].error # {} /\ checks[6].error # {} /\ checks[7].error # {} /\ checks[8].error # {}
        /\ checks[9].error # {} /\ checks[10].error # {} /\ checks[11].error # {} /\ checks[12].error # {}
        /\ checks[13].error # {} /\ checks[14].error # {} /\ checks[15].error # {}
    BY <1>1 DEF configErrors, Check
  <2> QED
    BY <2>1, <2>2
<1>5. \A i \in 1..15 : ~checks[i].wrong
  <2>1. Len(checks) \in Nat
    BY <1>3
  <2>2. FirstError(checks, {}) = {}
    BY <1>1 DEF ValidateConfig
  <2>3. \A i \in 1..Len(checks) : ~checks[i].wrong
    BY <1>4, <2>1, <2>2, FirstErrorFound
  <2> QED
    BY <1>3, <2>3
<1> QED
  BY <1>2, <1>5

\* What a request has to be for its selection to be run with a seed.
Sound(r, seed, selection, d) ==
  /\ Garbled \notin {ParseBytes(r.size), ParseBytes(r.blockSize), r.duration, seed}
  /\ r.ioMode \in IOModes
  /\ r.cacheControl \in CacheControls
  /\ ~selection.error
  /\ ValidateConfig(normalized(Config(r, seed, selection)), d) = {}
  /\ r.directory # "unreadable"
  /\ ~(ParseBytes(r.size) > d.available)

\* An error that blames a field is not mistaken for acceptance.
LEMMA BlameIsNoAcceptance ==
  ASSUME NEW field, NEW message, message # {}
  PROVE  Blame(field, message) # Accepted
<1>1. Blame(field, message).message = message /\ Accepted.message = {}
  BY DEF Blame, Accepted
<1> QED
  BY <1>1


\* The service accepts the sound requests and no others.
LEMMA BuildAccepts ==
  ASSUME NEW r, NEW s, NEW d
  PROVE  LET selection == SelectionOf(r.workload, r, s)
         IN  /\ Sound(r, serviceSeed(r), selection, d) =>
                  buildBenchmark(r, s, d) = Built(Config(r, serviceSeed(r), selection), selection)
             /\ ~Sound(r, serviceSeed(r), selection, d) =>
                  \E blame : blame # Accepted /\ buildBenchmark(r, s, d) = Rejected(blame)
<1> DEFINE selection == SelectionOf(r.workload, r, s)
           wanted == Config(r, serviceSeed(r), selection)
           invalid == ValidateConfig(normalized(wanted), d)
           list == <<
             Parse(wanted.size = Garbled, "size"),
             Parse(wanted.blockSize = Garbled, "blockSize"),
             Parse(r.duration = Garbled, "duration"),
             Parse(wanted.randomSeed = Garbled, "randomSeed"),
             Parse(r.ioMode \notin IOModes, "ioMode"),
             Parse(r.cacheControl \notin CacheControls, "cacheControl"),
             Parse(selection.error, IF r.suiteFile THEN "suiteFile" ELSE "workload"),
             Check(invalid # {}, Blame(configErrorField(invalid), invalid)),
             Parse(r.directory = "unreadable", "directory"),
             Check(wanted.size > d.available, Blame("size", {"disk space"}))>>
           blame == FirstError(list, Accepted)
<1>1. buildBenchmark(r, s, d) = IF blame = Accepted THEN Built(wanted, selection) ELSE Rejected(blame)
  BY Zenon DEF buildBenchmark
<1>2. blame = Accepted <=> Sound(r, serviceSeed(r), selection, d)
  <2>1. PICK checks : checks = list
    <3> HIDE DEF list
    <3> QED
      OBVIOUS
  <2>2. Len(checks) = 10
    BY <2>1 DEF Parse, Check
  <2>3. /\ wanted.size = ParseBytes(r.size) /\ wanted.blockSize = ParseBytes(r.blockSize)
        /\ wanted.randomSeed = serviceSeed(r)
    BY DEF Config
  <2>4. /\ checks[1].wrong <=> wanted.size = Garbled
        /\ checks[2].wrong <=> wanted.blockSize = Garbled
        /\ checks[3].wrong <=> r.duration = Garbled
        /\ checks[4].wrong <=> wanted.randomSeed = Garbled
        /\ checks[5].wrong <=> r.ioMode \notin IOModes
        /\ checks[6].wrong <=> r.cacheControl \notin CacheControls
        /\ checks[7].wrong <=> selection.error
        /\ checks[8].wrong <=> invalid # {}
        /\ checks[9].wrong <=> r.directory = "unreadable"
        /\ checks[10].wrong <=> wanted.size > d.available
    BY <2>1 DEF Parse, Check
  <2>5. ASSUME NEW i \in 1..Len(checks), checks[i].wrong
        PROVE  checks[i].error # Accepted
    <3>1. i \in {1, 2, 3, 4, 5, 6, 7, 8, 9, 10}
      BY <2>2
    <3>2. /\ checks[1].error = Blame("size", {"size"})
          /\ checks[2].error = Blame("blockSize", {"blockSize"})
          /\ checks[3].error = Blame("duration", {"duration"})
          /\ checks[4].error = Blame("randomSeed", {"randomSeed"})
          /\ checks[5].error = Blame("ioMode", {"ioMode"})
          /\ checks[6].error = Blame("cacheControl", {"cacheControl"})
          /\ checks[7].error = Blame(IF r.suiteFile THEN "suiteFile" ELSE "workload",
                                     {IF r.suiteFile THEN "suiteFile" ELSE "workload"})
          /\ checks[8].error = Blame(configErrorField(invalid), invalid)
          /\ checks[9].error = Blame("directory", {"directory"})
          /\ checks[10].error = Blame("size", {"disk space"})
      BY <2>1 DEF Parse, Check
    <3>3. i = 8 => invalid # {}
      BY <2>4, <2>5
    <3>4. \A field, phrase : Blame(field, {phrase}) # Accepted
      BY BlameIsNoAcceptance
    <3>5. /\ checks[1].error # Accepted /\ checks[2].error # Accepted /\ checks[3].error # Accepted
          /\ checks[4].error # Accepted /\ checks[5].error # Accepted /\ checks[6].error # Accepted
          /\ checks[7].error # Accepted /\ checks[9].error # Accepted /\ checks[10].error # Accepted
      <4>1. /\ Blame("size", {"size"}) # Accepted /\ Blame("blockSize", {"blockSize"}) # Accepted
            /\ Blame("duration", {"duration"}) # Accepted
            /\ Blame("randomSeed", {"randomSeed"}) # Accepted /\ Blame("ioMode", {"ioMode"}) # Accepted
            /\ Blame("cacheControl", {"cacheControl"}) # Accepted
            /\ Blame(IF r.suiteFile THEN "suiteFile" ELSE "workload",
                     {IF r.suiteFile THEN "suiteFile" ELSE "workload"}) # Accepted
            /\ Blame("directory", {"directory"}) # Accepted
            /\ Blame("size", {"disk space"}) # Accepted
        BY <3>4, Zenon
      <4> HIDE DEF invalid, wanted, list
      <4> QED
        BY <3>2, <4>1, Zenon
    <3>6. CASE i = 8
      <4>1. invalid # {}
        BY <3>3, <3>6
      <4>2. Blame(configErrorField(invalid), invalid) # Accepted
        <5> HIDE DEF invalid
        <5> QED
          BY <4>1, BlameIsNoAcceptance
      <4> HIDE DEF invalid, wanted, list
      <4> QED
        BY <3>2, <3>6, <4>2
    <3> HIDE DEF invalid, wanted, list
    <3> QED
      BY <3>1, <3>5, <3>6
  <2>6. blame = Accepted <=> \A i \in 1..Len(checks) : ~checks[i].wrong
    <3> HIDE DEF list
    <3>1. blame = FirstError(checks, Accepted)
      BY <2>1
    <3>2. Len(checks) \in Nat
      BY <2>2
    <3> HIDE DEF blame
    <3> QED
      BY <2>5, <3>1, <3>2, FirstErrorFound
  <2>7. 1..Len(checks) = {1, 2, 3, 4, 5, 6, 7, 8, 9, 10}
    BY <2>2
  <2> QED
    BY <2>3, <2>4, <2>6, <2>7 DEF Sound
<1> QED
  BY <1>1, <1>2

\* The command line accepts the sound requests that name one source of workloads.
LEMMA CommandLineAccepts ==
  ASSUME NEW r, NEW s, NEW d, ParseBytes(r.size) \in Int, d.available \in Int
  PROVE  LET selection == SelectionOf(builtInFlag(r), r, s)
             accepted == Sound(r, flagSeed(r), selection, d) /\ ~(r.suiteFile /\ explicitWorkload(r))
         IN  /\ accepted => commandLine(r, s, d) = Built(Config(r, flagSeed(r), selection), selection)
             /\ ~accepted => \E blame : commandLine(r, s, d) = Rejected(blame)
<1> DEFINE selection == SelectionOf(builtInFlag(r), r, s)
           wanted == Config(r, flagSeed(r), selection)
           refused ==
             \/ Garbled \in {r.duration, wanted.randomSeed, wanted.size, wanted.blockSize}
             \/ r.ioMode \notin IOModes
             \/ r.cacheControl \notin CacheControls
             \/ r.suiteFile /\ explicitWorkload(r)
             \/ selection.error
             \/ ValidateConfig(normalized(wanted), d) # {}
             \/ r.directory = "unreadable"
             \/ d.available < wanted.size
<1>1. commandLine(r, s, d) = IF refused THEN Rejected(Blame("", {})) ELSE Built(wanted, selection)
  BY Zenon DEF commandLine
<1>2. refused <=> ~(Sound(r, flagSeed(r), selection, d) /\ ~(r.suiteFile /\ explicitWorkload(r)))
  <2>1. /\ wanted.size = ParseBytes(r.size) /\ wanted.blockSize = ParseBytes(r.blockSize)
        /\ wanted.randomSeed = flagSeed(r)
    BY DEF Config
  <2>2. d.available < wanted.size <=> ParseBytes(r.size) > d.available
    BY <2>1
  <2>3. PICK c : c = wanted
    OBVIOUS
  <2>4. Sound(r, flagSeed(r), selection, d) <=>
          /\ Garbled \notin {ParseBytes(r.size), ParseBytes(r.blockSize), r.duration, flagSeed(r)}
          /\ r.ioMode \in IOModes
          /\ r.cacheControl \in CacheControls
          /\ ~selection.error
          /\ ValidateConfig(normalized(c), d) = {}
          /\ r.directory # "unreadable"
          /\ ~(ParseBytes(r.size) > d.available)
    BY <2>3, Zenon DEF Sound
  <2> HIDE DEF wanted, selection
  <2> QED
    BY <2>1, <2>2, <2>3, <2>4
<1> QED
  BY <1>1, <1>2, Zenon

\* The number a size text stands for.
LEMMA ParseBytesType ==
  ASSUME NEW text \in Size
  PROVE  ParseBytes(text) \in Int
<1>1. Garbled \in Int /\ -(MaxInt + 1) \in Int /\ text.tenths \in Int
  BY RequestsAssumption DEF Garbled, Size
<1>2. CASE text.tenths <= 0 \/ text.unit \notin DOMAIN multipliers
  BY <1>1, <1>2 DEF ParseBytes
<1>3. CASE ~(text.tenths <= 0 \/ text.unit \notin DOMAIN multipliers)
  <2> DEFINE bytes == text.tenths * multipliers[text.unit]
  <2>1. multipliers[text.unit] \in Int
    BY <1>3, RequestsAssumption DEF multipliers
  <2>2. bytes \in Int
    BY <1>1, <2>1
  <2>3. ParseBytes(text) = CASE bytes > 10 * (MaxInt + 1) -> Garbled
                             [] bytes % 10 # 0 -> Garbled
                             [] bytes = 10 * (MaxInt + 1) -> -(MaxInt + 1)
                             [] OTHER -> bytes \div 10
    BY <1>3, Zenon DEF ParseBytes
  <2> HIDE DEF bytes
  <2>4. bytes \div 10 \in Int
    BY <2>2
  <2> QED
    BY <1>1, <2>3, <2>4
<1> QED
  BY <1>2, <1>3

-----------------------------------------------------------------------------
(* The inductive invariant *)

\* A request as the form holds it: choosing a suite file empties its workload.
HeldRequest ==
  [directory : STRING, size : Size, blockSize : Size, iterations : Int, warmupIterations : Int,
   workload : STRING \cup {""}, suiteFile : BOOLEAN, duration : Int, workers : Int,
   queueDepth : Int, randomReadPercent : Int, randomSeed : Seed, ioMode : STRING,
   cacheControl : STRING, confirmed : BOOLEAN]

Phases == {"form", "invalid", "dialog", "starting", "refused", "running"}
Reasons == {"large", "duration", "iterations", "fsync"}

\* A run has been built from the request, the suite and the disk it finds, and
\* what it is confirmed for was found in the same look at them.
RunIsBuiltNow ==
  Running => /\ answer = answerNow
             /\ answer.built.blame = Accepted
             /\ answer.reasons = {} \/ request.confirmed

Inductive ==
  /\ request \in HeldRequest
  /\ suite \in SuiteFile
  /\ disk \in Disk
  /\ phase \in Phases
  /\ answer.reasons \subseteq Reasons
  /\ RunIsBuiltNow

\* The first states.
LEMMA InductiveInit == Init => Inductive
<1> SUFFICES ASSUME Init PROVE Inductive
  OBVIOUS
<1>1. request \in HeldRequest
  <2>1. request \in Request
    BY SubmissionAssumption DEF Init
  <2> QED
    BY <2>1 DEF Request, HeldRequest
<1>2. NoSuite \in SuiteFile
  BY DEF NoSuite, SuiteFile
<1>3. suite \in SuiteFile
  BY <1>2, SubmissionAssumption DEF Init
<1>4. disk \in Disk
  BY SubmissionAssumption DEF Init
<1>5. phase \in Phases /\ RunIsBuiltNow
  BY DEF Init, Phases, RunIsBuiltNow, Running
<1>6. answer.reasons \subseteq Reasons
  BY DEF Init, NoAnswer
<1> QED
  BY <1>1, <1>3, <1>4, <1>5, <1>6 DEF Inductive

\* An answer gives known reasons.
LEMMA KnownReasons == answerNow.reasons \subseteq Reasons
<1>1. assessWriteImpact(answerNow.built.config[1], answerNow.built.workloads) \subseteq Reasons
  BY DEF assessWriteImpact, Reasons
<1>2. \/ answerNow.reasons = {}
      \/ answerNow.reasons = assessWriteImpact(answerNow.built.config[1], answerNow.built.workloads)
  BY DEF answerNow
<1> QED
  BY <1>1, <1>2

\* Every step.
LEMMA InductiveStep == Inductive /\ [Next]_vars => Inductive'
<1> SUFFICES ASSUME Inductive, [Next]_vars PROVE Inductive'
  OBVIOUS
<1>1. CASE SelectSuiteFile
  <2>1. request' \in HeldRequest
    BY <1>1 DEF SelectSuiteFile, Inductive, HeldRequest
  <2>2. suite' \in SuiteFile
    BY <1>1, SubmissionAssumption DEF SelectSuiteFile
  <2> QED
    BY <1>1, <2>1, <2>2 DEF SelectSuiteFile, Inductive, RunIsBuiltNow, Running
<1>2. CASE ValidateBenchmark
  <2>1. answer' = answerNow /\ phase' \in {"invalid", "dialog", "starting"}
    BY <1>2 DEF ValidateBenchmark
  <2>2. answer'.reasons \subseteq Reasons
    BY <2>1, KnownReasons
  <2> QED
    BY <1>2, <2>1, <2>2 DEF ValidateBenchmark, Inductive, RunIsBuiltNow, Running, Phases
<1>3. CASE Confirm
  <2>1. request' \in HeldRequest
    BY <1>3 DEF Confirm, Inductive, HeldRequest
  <2> QED
    BY <1>3, <2>1 DEF Confirm, Inductive, RunIsBuiltNow, Running, Phases
<1>4. CASE Edit
  <2>1. suite' \in SuiteFile /\ disk' \in Disk
    BY <1>4, SubmissionAssumption DEF Edit, Inductive
  <2> QED
    BY <1>4, <2>1 DEF Edit, Inductive, RunIsBuiltNow, Running
<1>5. CASE StartBenchmark
  <2>1. answer' = answerNow /\ phase' \in {"refused", "running"}
    BY <1>5 DEF StartBenchmark
  <2>2. answer'.reasons \subseteq Reasons
    BY <2>1, KnownReasons
  <2>3. answerNow' = answerNow
    BY <1>5 DEF StartBenchmark, answerNow
  <2>4. phase' = "running" => /\ answer'.built.blame = Accepted
                              /\ answer'.reasons = {} \/ request.confirmed
    BY <1>5 DEF StartBenchmark
  <2>5. RunIsBuiltNow'
    BY <1>5, <2>1, <2>3, <2>4 DEF StartBenchmark, RunIsBuiltNow, Running, Accepted, Blame
  <2> QED
    BY <1>5, <2>1, <2>2, <2>5 DEF StartBenchmark, Inductive, Phases
<1>6. CASE Done \/ UNCHANGED vars
  <2>1. UNCHANGED vars
    BY <1>6 DEF Done
  <2>2. answerNow' = answerNow
    BY <2>1 DEF vars, answerNow
  <2>3. RunIsBuiltNow'
    BY <2>1, <2>2 DEF vars, Inductive, RunIsBuiltNow, Running, Accepted, Blame
  <2> QED
    BY <2>1, <2>3 DEF vars, Inductive
<1> QED
  BY <1>1, <1>2, <1>3, <1>4, <1>5, <1>6 DEF Next

\* The inductive invariant holds throughout: whatever is edited between the
\* validation and the start, what runs has been read, built and assessed at once.
THEOREM InductiveInvariant == Spec => []Inductive
<1> QED
  BY InductiveInit, InductiveStep, PTL DEF Spec

-----------------------------------------------------------------------------
(* The service and the command line *)

\* The notations that a form and a flag read in the same way.
LEMMA SameSeed ==
  ASSUME NEW r, r.randomSeed.notation \notin {"leadingZero", "prefixed", "underscored"}
  PROVE  serviceSeed(r) = flagSeed(r)
<1>1. /\ DOMAIN decimal = {"plain", "leadingZero"} /\ decimal.plain = 10
      /\ DOMAIN literal = {"plain", "leadingZero", "prefixed", "underscored"} /\ literal.plain = 10
  BY DEF decimal, literal
<1>2. PICK text : text = r.randomSeed
  OBVIOUS
<1>3. CASE text.notation = "plain"
  <2>1. decimal[text.notation] = literal[text.notation]
    BY <1>1, <1>3
  <2>2. text.notation \in DOMAIN decimal /\ text.notation \in DOMAIN literal
    BY <1>1, <1>3
  <2>3. ParseInt(text, decimal) = ParseInt(text, literal)
    BY <2>1, <2>2, Zenon DEF ParseInt
  <2> QED
    BY <1>2, <2>3, Zenon DEF serviceSeed, flagSeed
<1>4. CASE text.notation # "plain"
  <2>1. text.notation \notin DOMAIN decimal /\ text.notation \notin DOMAIN literal
    BY <1>1, <1>2, <1>4
  <2>2. ParseInt(text, decimal) = Garbled /\ ParseInt(text, literal) = Garbled
    BY <2>1, Zenon DEF ParseInt
  <2> QED
    BY <1>2, <2>2, Zenon DEF serviceSeed, flagSeed
<1> QED
  BY <1>3, <1>4

\* Configurations of one request differ in the seed alone.
LEMMA SeedIsCarried ==
  ASSUME NEW r, NEW ours, NEW theirs, NEW selection
  PROVE  normalized(Config(r, ours, selection))
           = [normalized(Config(r, theirs, selection)) EXCEPT !.randomSeed = ours]
<1> DEFINE fields == {"directory", "size", "blockSize", "iterations", "warmupIterations", "workers",
                      "queueDepth", "randomReadPercent", "randomSeed", "ioMode", "cacheControl",
                      "duration", "suiteVersion"}
           other == [normalized(Config(r, theirs, selection)) EXCEPT !.randomSeed = ours]
           wanted == normalized(Config(r, ours, selection))
<1>1. /\ wanted = [f \in fields |-> wanted[f]]
      /\ other = [f \in fields |-> other[f]]
  BY DEF normalized, Config
<1>2. /\ wanted.directory = other.directory /\ wanted.size = other.size
      /\ wanted.blockSize = other.blockSize /\ wanted.iterations = other.iterations
      /\ wanted.warmupIterations = other.warmupIterations /\ wanted.workers = other.workers
      /\ wanted.queueDepth = other.queueDepth
      /\ wanted.randomReadPercent = other.randomReadPercent
      /\ wanted.randomSeed = other.randomSeed /\ wanted.ioMode = other.ioMode
      /\ wanted.cacheControl = other.cacheControl /\ wanted.duration = other.duration
      /\ wanted.suiteVersion = other.suiteVersion
  BY DEF normalized, Config
<1> HIDE DEF wanted, other
<1>3. \A f \in fields : wanted[f] = other[f]
  BY <1>2
<1> HIDE DEF fields
<1>4. wanted = other
  BY <1>1, <1>3
<1> QED
  BY <1>4 DEF wanted, other

\* What both make of a request: the same, if they read the same seed, and if they
\* both accept it the same but for the seed.
LEMMA FrontEndsAgreeOn ==
  ASSUME NEW r \in HeldRequest, NEW s, NEW d \in Disk,
         NEW service, service = buildBenchmark(r, s, d), NEW flags, flags = commandLine(r, s, d)
  PROVE  /\ serviceSeed(r) = flagSeed(r) =>
              service.config = flags.config /\ service.workloads = flags.workloads
         /\ service.config # << >> /\ flags.config # << >> =>
              /\ service.workloads = flags.workloads
              /\ service.config[1] = [flags.config[1] EXCEPT !.randomSeed = serviceSeed(r)]
<1> DEFINE ours == SelectionOf(r.workload, r, s)
           theirs == SelectionOf(builtInFlag(r), r, s)
<1>1. ParseBytes(r.size) \in Int /\ d.available \in Int
  <2>1. r.size \in Size /\ d.available \in Nat
    BY DEF HeldRequest, Disk
  <2> QED
    BY <2>1, ParseBytesType
<1>2. \A blame : Rejected(blame).config = << >> /\ Rejected(blame).workloads = << >>
  BY DEF Rejected
<1>3. CASE r.suiteFile /\ explicitWorkload(r)
  <2>1. ours.error
    <3>1. r.workload # ""
      BY <1>3 DEF explicitWorkload
    <3>2. <<s>> # << >>
      OBVIOUS
    <3> QED
      BY <1>3, <3>1, <3>2 DEF SelectionOf, Select, Failure
  <2>2. ~Sound(r, serviceSeed(r), ours, d)
    BY <2>1 DEF Sound
  <2>3. \E blame : service = Rejected(blame)
    BY <2>2, BuildAccepts
  <2>4. \E blame : flags = Rejected(blame)
    BY <1>1, <1>3, CommandLineAccepts
  <2>5. service.config = flags.config /\ service.workloads = flags.workloads /\ flags.config = << >>
    BY <1>2, <2>3, <2>4
  <2> QED
    BY <2>5, Zenon
<1>4. CASE ~(r.suiteFile /\ explicitWorkload(r))
  <2>1. ours = theirs
    <3>1. CASE explicitWorkload(r)
      BY <3>1 DEF builtInFlag
    <3>2. CASE ~explicitWorkload(r) /\ r.suiteFile
      BY <3>2 DEF builtInFlag, explicitWorkload
    <3>3. CASE ~explicitWorkload(r) /\ ~r.suiteFile
      <4>1. r.workload = "" /\ builtInFlag(r) = "sequential"
        BY <3>3 DEF builtInFlag, explicitWorkload
      <4>2. BuiltIn("") = BuiltIn("sequential")
        BY DEF BuiltIn
      <4> QED
        BY <3>3, <4>1, <4>2 DEF SelectionOf, Select
    <3> QED
      BY <3>1, <3>2, <3>3
  <2>2. PICK seed, flag : seed = serviceSeed(r) /\ flag = flagSeed(r)
    OBVIOUS
  <2>3. /\ Sound(r, seed, ours, d) => service = Built(Config(r, seed, ours), ours)
        /\ ~Sound(r, seed, ours, d) => \E blame : service = Rejected(blame)
    BY <2>2, BuildAccepts
  <2>4. /\ Sound(r, flag, ours, d) => flags = Built(Config(r, flag, ours), ours)
        /\ ~Sound(r, flag, ours, d) => \E blame : flags = Rejected(blame)
    BY <1>1, <1>4, <2>1, <2>2, CommandLineAccepts
  <2>5. ASSUME seed = flag
        PROVE  service.config = flags.config /\ service.workloads = flags.workloads
    <3> HIDE DEF ours
    <3> QED
      BY <1>2, <2>3, <2>4, <2>5
  <2>6. ASSUME service.config # << >>, flags.config # << >>
        PROVE  /\ service.workloads = flags.workloads
               /\ service.config[1] = [flags.config[1] EXCEPT !.randomSeed = seed]
    <3> HIDE DEF ours
    <3>1. /\ service = Built(Config(r, seed, ours), ours)
          /\ flags = Built(Config(r, flag, ours), ours)
      BY <1>2, <2>3, <2>4, <2>6, Zenon
    <3>2. /\ service.config = <<normalized(Config(r, seed, ours))>>
          /\ flags.config = <<normalized(Config(r, flag, ours))>>
          /\ service.workloads = ours.workloads /\ flags.workloads = ours.workloads
      BY <3>1 DEF Built
    <3>3. /\ service.config[1] = normalized(Config(r, seed, ours))
          /\ flags.config[1] = normalized(Config(r, flag, ours))
      BY <3>2
    <3>4. normalized(Config(r, seed, ours))
            = [normalized(Config(r, flag, ours)) EXCEPT !.randomSeed = seed]
      BY SeedIsCarried
    <3> QED
      BY <3>2, <3>3, <3>4, Zenon
  <2> QED
    BY <2>2, <2>5, <2>6, Zenon
<1> QED
  BY <1>3, <1>4

\* buildBenchmark and run of main.go are kept apart in the source and agree on
\* every request, suite file and disk: one is accepted by the service exactly if
\* the command line accepts it, with the same workloads and configuration,
\* unless its seed is written as the two parse differently (base 10 and base 0);
\* and if both accept such a request, their runs differ in the seed alone.
THEOREM ServiceAndCommandLineAgree == Spec => []FrontEndsAgree
<1>1. Inductive => FrontEndsAgree
  <2> SUFFICES ASSUME Inductive PROVE FrontEndsAgree
    OBVIOUS
  <2>1. PICK r, s, d : r = request /\ s = suite /\ d = disk
    OBVIOUS
  <2>2. r \in HeldRequest /\ d \in Disk
    BY <2>1 DEF Inductive
  <2>3. PICK service, flags : service = buildBenchmark(r, s, d) /\ flags = commandLine(r, s, d)
    OBVIOUS
  <2>4. /\ serviceSeed(r) = flagSeed(r) =>
             service.config = flags.config /\ service.workloads = flags.workloads
        /\ service.config # << >> /\ flags.config # << >> =>
             /\ service.workloads = flags.workloads
             /\ service.config[1] = [flags.config[1] EXCEPT !.randomSeed = serviceSeed(r)]
    BY <2>2, <2>3, FrontEndsAgreeOn
  <2>5. r.randomSeed.notation \notin {"leadingZero", "prefixed", "underscored"} =>
          serviceSeed(r) = flagSeed(r)
    BY SameSeed, Zenon
  <2> QED
    BY <2>1, <2>3, <2>4, <2>5, Zenon DEF FrontEndsAgree
<1> QED
  BY <1>1, InductiveInvariant, PTL

-----------------------------------------------------------------------------
(* The run *)

\* What runs was accepted.
LEMMA RunIsSound ==
  ASSUME Inductive, Running
  PROVE  LET selection == SelectionOf(request.workload, request, suite)
         IN  /\ Sound(request, serviceSeed(request), selection, disk)
             /\ config = normalized(Config(request, serviceSeed(request), selection))
             /\ selected = selection.workloads
<1> DEFINE selection == SelectionOf(request.workload, request, suite)
<1>1. answer.built = buildBenchmark(request, suite, disk) /\ answer.built.blame = Accepted
  BY DEF Inductive, RunIsBuiltNow, answerNow
<1>2. Sound(request, serviceSeed(request), selection, disk)
  <2> SUFFICES ASSUME ~Sound(request, serviceSeed(request), selection, disk) PROVE FALSE
    OBVIOUS
  <2>1. PICK blame : blame # Accepted /\ buildBenchmark(request, suite, disk) = Rejected(blame)
    BY BuildAccepts
  <2>2. Rejected(blame).blame = blame
    BY DEF Rejected
  <2> QED
    BY <1>1, <2>1, <2>2
<1>3. answer.built = Built(Config(request, serviceSeed(request), selection), selection)
  BY <1>1, <1>2, BuildAccepts
<1>4. config = normalized(Config(request, serviceSeed(request), selection)) /\ selected = selection.workloads
  <2>1. /\ answer.built.config = <<normalized(Config(request, serviceSeed(request), selection))>>
        /\ answer.built.workloads = selection.workloads
    BY <1>3 DEF Built
  <2> HIDE DEF selection
  <2> QED
    BY <2>1 DEF config, selected
<1> QED
  BY <1>2, <1>4

\* The numbers a run is configured with, and its workloads.
LEMMA RunIsConfigured ==
  ASSUME Inductive, Running
  PROVE  /\ config.size \in 1..disk.available
         /\ config.blockSize \in 1..config.size
         /\ config.iterations \in Nat \ {0}
         /\ config.workers \in Nat \ {0}
         /\ config.queueDepth \in Nat \ {0}
         /\ config.duration \in Nat
         /\ selected \in Selection
<1>1. PICK selection : selection = SelectionOf(request.workload, request, suite)
  OBVIOUS
<1>2. /\ Sound(request, serviceSeed(request), selection, disk)
      /\ config = normalized(Config(request, serviceSeed(request), selection))
      /\ selected = selection.workloads
  BY <1>1, RunIsSound
<1>3. /\ request.size \in Size /\ request.blockSize \in Size /\ request.iterations \in Int
      /\ request.workers \in Int /\ request.queueDepth \in Int /\ request.duration \in Int
      /\ disk.available \in Nat /\ suite \in SuiteFile
  BY DEF Inductive, HeldRequest, Disk
<1>4. ParseBytes(request.size) \in Int /\ ParseBytes(request.blockSize) \in Int
  BY <1>3, ParseBytesType
<1>5. /\ config.size = ParseBytes(request.size)
      /\ config.blockSize = ParseBytes(request.blockSize)
      /\ config.iterations = request.iterations
      /\ config.duration = request.duration
      /\ config.workers = IF request.workers = 0 THEN 1 ELSE request.workers
      /\ config.queueDepth = IF request.queueDepth = 0 THEN 1 ELSE request.queueDepth
  <2>1. PICK c : c = config
    OBVIOUS
  <2>2. c = normalized(Config(request, serviceSeed(request), selection))
    BY <1>2, <2>1
  <2>3. /\ c.size = ParseBytes(request.size)
        /\ c.blockSize = ParseBytes(request.blockSize)
        /\ c.iterations = request.iterations
        /\ c.duration = request.duration
        /\ c.workers = IF request.workers = 0 THEN 1 ELSE request.workers
        /\ c.queueDepth = IF request.queueDepth = 0 THEN 1 ELSE request.queueDepth
    BY <2>2 DEF normalized, Config
  <2> QED
    BY <2>1, <2>3
<1>6. ValidateConfig(config, disk) = {} /\ ~(ParseBytes(request.size) > disk.available)
  BY <1>2 DEF Sound
<1>7. /\ ~(config.size <= 0) /\ ~(config.blockSize <= 0) /\ ~(config.blockSize > config.size)
      /\ ~(config.iterations <= 0) /\ ~(config.duration < 0)
      /\ ~(config.workers < 0) /\ ~(config.queueDepth < 0)
  <2>1. PICK c : c = config
    OBVIOUS
  <2>2. /\ ~(c.size <= 0) /\ ~(c.blockSize <= 0) /\ ~(c.blockSize > c.size)
        /\ ~(c.iterations <= 0) /\ ~(c.duration < 0) /\ ~(c.workers < 0) /\ ~(c.queueDepth < 0)
    BY <1>6, <2>1, ValidNumbers
  <2> QED
    BY <2>1, <2>2
<1>8. selected \in Selection
  BY <1>1, <1>2, <1>3, SelectedWorkloads DEF Sound
<1> QED
  BY <1>3, <1>4, <1>5, <1>6, <1>7, <1>8

\* A running benchmark has a configuration the runner can work with, whatever
\* the request, the suite file and the disk have been on the way: positive
\* numbers, a working set that fits the disk, and a workload to run.
THEOREM TypeCorrect == Spec => []TypeOK
<1>1. ASSUME Inductive
      PROVE  TypeOK
  <2>1. ASSUME Running
        PROVE  /\ config.size \in 1..disk.available /\ config.blockSize \in 1..config.size
               /\ config.iterations > 0 /\ config.workers > 0 /\ config.queueDepth > 0
               /\ selected # << >>
    <3>1. \A n \in Nat \ {0} : n > 0
      OBVIOUS
    <3> QED
      BY <1>1, <2>1, <3>1, RunIsConfigured DEF Selection
  <2> QED
    BY <1>1, <2>1 DEF TypeOK, Inductive, Phases, Reasons
<1> QED
  BY <1>1, InductiveInvariant, PTL

\* A run nobody has confirmed measures a small working set once, and none of its
\* workloads repeats or syncs its writes, whatever has been edited between
\* ValidateBenchmark and StartBenchmark.
THEOREM UnconfirmedRunsAreModest == Spec => []UnconfirmedRunIsModest
<1>1. ASSUME Inductive, Running, ~request.confirmed
      PROVE  /\ config.size < LargeWorkingSetThreshold
             /\ config.iterations = 1
             /\ \A i \in DOMAIN selected :
                  /\ apply(selected[i], config.duration) = 0
                  /\ selected[i].kind # "Fsync-per-block write"
  <2>1. PICK c, list : c = config /\ list = selected
    OBVIOUS
  <2>2. /\ c.size \in Int /\ c.iterations \in Nat \ {0} /\ c.duration \in Nat /\ list \in Selection
    BY <1>1, <2>1, RunIsConfigured
  <2>3. assessWriteImpact(c, list) = {}
    <3>1. answer = answerNow /\ answer.built.blame = Accepted /\ answer.reasons = {}
      BY <1>1 DEF Inductive, RunIsBuiltNow
    <3> QED
      BY <2>1, <3>1 DEF answerNow, config, selected
  <2>4. /\ ~(c.size >= LargeWorkingSetThreshold)
        /\ ~hasDurationWorkload(list, c.duration)
        /\ ~(c.iterations > 1)
        /\ ~hasFsyncWorkload(list)
    BY <2>3 DEF assessWriteImpact
  <2>5. c.size < LargeWorkingSetThreshold /\ c.iterations = 1 /\ c.duration = 0
    <3>1. LargeWorkingSetThreshold \in Int
      BY RequestsAssumption
    <3> QED
      BY <2>2, <2>4, <3>1 DEF hasDurationWorkload
  <2>6. ASSUME NEW i \in DOMAIN list
        PROVE  apply(list[i], c.duration) = 0 /\ list[i].kind # "Fsync-per-block write"
    <3>1. ~IsTimed(list[i]) /\ list[i].kind # "Fsync-per-block write"
      BY <2>4, <2>6 DEF hasDurationWorkload, hasFsyncWorkload
    <3>2. list[i] \in Workload
      <4>1. list \in Seq(Workload)
        BY <2>2 DEF Selection
      <4> QED
        BY <2>6, <4>1, ElementOfSeq
    <3>3. list[i].duration \in Optional(Nat)
      BY <3>2 DEF Workload
    <3>4. apply(list[i], c.duration) = 0
      <4>1. CASE list[i].duration = << >>
        BY <2>5, <4>1 DEF apply
      <4>2. CASE list[i].duration # << >>
        <5>1. list[i].duration[1] \in Nat
          BY <3>3, <4>2, OptionalValue
        <5>2. ~(list[i].duration[1] > 0)
          BY <3>1, <4>2 DEF IsTimed
        <5> QED
          BY <4>2, <5>1, <5>2 DEF apply
      <4> QED
        BY <4>1, <4>2
    <3> QED
      BY <3>1, <3>4
  <2> QED
    BY <2>1, <2>5, <2>6
<1>2. Inductive => UnconfirmedRunIsModest
  BY <1>1 DEF UnconfirmedRunIsModest
<1> QED
  BY <1>2, InductiveInvariant, PTL

-----------------------------------------------------------------------------
(* What an error blames *)

\* The first check that fails gives its error, and those before it pass.
LEMMA FirstErrorNamed ==
  ASSUME NEW checks, Len(checks) \in Nat, NEW fine
  PROVE  \/ FirstError(checks, fine) = fine
         \/ \E i \in 1..Len(checks) :
              /\ checks[i].wrong /\ FirstError(checks, fine) = checks[i].error
              /\ \A j \in 1..(i - 1) : ~checks[j].wrong
<1> DEFINE I == {i \in 1..Len(checks) : checks[i].wrong}
<1>1. SelectInSeq(checks, LAMBDA check : check.wrong) = IF I # {} THEN Min(I) ELSE 0
  BY DEF SelectInSeq
<1>2. CASE I = {}
  BY <1>1, <1>2 DEF FirstError
<1>3. CASE I # {}
  <2>1. I \in SUBSET Nat
    OBVIOUS
  <2>2. PICK n \in I : \A m \in I : n <= m
    BY <1>3, <2>1, LeastNumber
  <2>3. Min(I) \in I /\ \A m \in I : Min(I) <= m
    BY <2>2 DEF Min
  <2>4. PICK i \in 1..Len(checks) : i = Min(I)
    BY <2>3
  <2>5. FirstError(checks, fine) = checks[i].error /\ checks[i].wrong
    BY <1>1, <1>3, <2>3, <2>4 DEF FirstError
  <2>6. \A j \in 1..(i - 1) : ~checks[j].wrong
    BY <2>3, <2>4
  <2> QED
    BY <2>5, <2>6
<1> QED
  BY <1>2, <1>3

\* The errors of an alignment nobody knows.
UnknownAlignment == {{"I/O"} \cup complaint : complaint \in SUBSET {"directory", "block size"}}

\* An error of a configuration, with what has caused it.
ConfigErrorMeans(c, d, error) ==
  \/ error = {"directory"} /\ c.directory \in {"", "missing"}
  \/ error = {"benchmark path"} /\ c.directory = "file"
  \/ error = {"data size"} /\ c.size <= 0
  \/ error = {"block size"} /\ c.blockSize <= 0
  \/ error = {"block size", "data size"} /\ c.blockSize > c.size /\ ~(c.size <= 0)
  \/ error = {"iterations"} /\ c.iterations <= 0
  \/ error = {"warm-up", "iterations"} /\ c.warmupIterations < 0
  \/ error = {"duration"} /\ c.duration < 0
  \/ error = {"workers"} /\ c.workers < 0
  \/ error = {"queue depth"} /\ c.queueDepth < 0
  \/ error = {"random read"} /\ c.randomReadPercent \notin 0..100
  \/ error \in UnknownAlignment /\ c.ioMode = "direct" /\ d.alignment <= 0
  \/ error = {"I/O", "block size"} /\ d.alignment > 0 /\ c.blockSize % d.alignment # 0
  \/ error = {"I/O", "data size"} /\ d.alignment > 0 /\ c.size % d.alignment # 0

\* Every error of a configuration has its cause.
LEMMA ConfigErrorCaused ==
  ASSUME NEW c, NEW d \in Disk
  PROVE  ValidateConfig(c, d) = {} \/ ConfigErrorMeans(c, d, ValidateConfig(c, d))
<1>1. PICK checks : checks = configErrors(c, d)
  OBVIOUS
<1>2. Len(checks) = 15
  BY <1>1 DEF configErrors, Check
<1>3. /\ checks[1].wrong <=> (c.directory = "")
      /\ checks[2].wrong <=> (c.size <= 0)
      /\ checks[3].wrong <=> (c.blockSize <= 0)
      /\ checks[4].wrong <=> (c.blockSize > c.size)
      /\ checks[5].wrong <=> (c.iterations <= 0)
      /\ checks[6].wrong <=> (c.warmupIterations < 0)
      /\ checks[7].wrong <=> (c.duration < 0)
      /\ checks[8].wrong <=> (c.workers < 0)
      /\ checks[9].wrong <=> (c.queueDepth < 0)
      /\ checks[10].wrong <=> (c.randomReadPercent \notin 0..100)
      /\ checks[11].wrong <=> (c.directory = "missing")
      /\ checks[12].wrong <=> (c.directory = "file")
      /\ checks[13].wrong <=> (c.ioMode = "direct" /\ d.alignment <= 0)
      /\ checks[14].wrong <=> (c.ioMode = "direct" /\ d.alignment > 0 /\ c.blockSize % d.alignment # 0)
      /\ checks[15].wrong <=> (c.ioMode = "direct" /\ d.alignment > 0 /\ c.size % d.alignment # 0)
  BY <1>1 DEF configErrors, Check
<1>4. /\ checks[1].error = {"directory"}
      /\ checks[2].error = {"data size"}
      /\ checks[3].error = {"block size"}
      /\ checks[4].error = {"block size", "data size"}
      /\ checks[5].error = {"iterations"}
      /\ checks[6].error = {"warm-up", "iterations"}
      /\ checks[7].error = {"duration"}
      /\ checks[8].error = {"workers"}
      /\ checks[9].error = {"queue depth"}
      /\ checks[10].error = {"random read"}
      /\ checks[11].error = {"directory"}
      /\ checks[12].error = {"benchmark path"}
      /\ checks[13].error = {"I/O"} \cup d.complaint
      /\ checks[14].error = {"I/O", "block size"}
      /\ checks[15].error = {"I/O", "data size"}
  BY <1>1 DEF configErrors, Check
<1>5. ASSUME NEW i \in 1..15, checks[i].wrong, \A j \in 1..(i - 1) : ~checks[j].wrong
      PROVE  ConfigErrorMeans(c, d, checks[i].error)
  <2>1. i \in {1, 2, 3, 4, 5, 6, 7, 8, 9, 10, 11, 12, 13, 14, 15}
    OBVIOUS
  <2>2. CASE i = 1
    <3>1. (c.directory = "") /\ checks[i].error = {"directory"}
      BY <1>3, <1>4, <1>5, <2>2
    <3> QED
      BY <3>1, Zenon DEF ConfigErrorMeans
  <2>3. CASE i = 2
    <3>1. (c.size <= 0) /\ checks[i].error = {"data size"}
      BY <1>3, <1>4, <1>5, <2>3
    <3> QED
      BY <3>1, Zenon DEF ConfigErrorMeans
  <2>4. CASE i = 3
    <3>1. (c.blockSize <= 0) /\ checks[i].error = {"block size"}
      BY <1>3, <1>4, <1>5, <2>4
    <3> QED
      BY <3>1, Zenon DEF ConfigErrorMeans
  <2>5. CASE i = 4
    <3>1. 2 \in 1..(i - 1)
      BY <2>5
    <3>2. ~(c.size <= 0)
      BY <1>3, <1>5, <3>1
    <3>3. c.blockSize > c.size /\ checks[i].error = {"block size", "data size"}
      BY <1>3, <1>4, <1>5, <2>5
    <3> QED
      BY <3>2, <3>3, Zenon DEF ConfigErrorMeans
  <2>6. CASE i = 5
    <3>1. (c.iterations <= 0) /\ checks[i].error = {"iterations"}
      BY <1>3, <1>4, <1>5, <2>6
    <3> QED
      BY <3>1, Zenon DEF ConfigErrorMeans
  <2>7. CASE i = 6
    <3>1. (c.warmupIterations < 0) /\ checks[i].error = {"warm-up", "iterations"}
      BY <1>3, <1>4, <1>5, <2>7
    <3> QED
      BY <3>1, Zenon DEF ConfigErrorMeans
  <2>8. CASE i = 7
    <3>1. (c.duration < 0) /\ checks[i].error = {"duration"}
      BY <1>3, <1>4, <1>5, <2>8
    <3> QED
      BY <3>1, Zenon DEF ConfigErrorMeans
  <2>9. CASE i = 8
    <3>1. (c.workers < 0) /\ checks[i].error = {"workers"}
      BY <1>3, <1>4, <1>5, <2>9
    <3> QED
      BY <3>1, Zenon DEF ConfigErrorMeans
  <2>10. CASE i = 9
    <3>1. (c.queueDepth < 0) /\ checks[i].error = {"queue depth"}
      BY <1>3, <1>4, <1>5, <2>10
    <3> QED
      BY <3>1, Zenon DEF ConfigErrorMeans
  <2>11. CASE i = 10
    <3>1. (c.randomReadPercent \notin 0..100) /\ checks[i].error = {"random read"}
      BY <1>3, <1>4, <1>5, <2>11
    <3> QED
      BY <3>1, Zenon DEF ConfigErrorMeans
  <2>12. CASE i = 11
    <3>1. (c.directory = "missing") /\ checks[i].error = {"directory"}
      BY <1>3, <1>4, <1>5, <2>12
    <3> QED
      BY <3>1, Zenon DEF ConfigErrorMeans
  <2>13. CASE i = 12
    <3>1. (c.directory = "file") /\ checks[i].error = {"benchmark path"}
      BY <1>3, <1>4, <1>5, <2>13
    <3> QED
      BY <3>1, Zenon DEF ConfigErrorMeans
  <2>14. CASE i = 13
    <3>1. (c.ioMode = "direct" /\ d.alignment <= 0) /\ checks[i].error = {"I/O"} \cup d.complaint
      BY <1>3, <1>4, <1>5, <2>14
    <3>2. d.complaint \in SUBSET {"directory", "block size"}
      BY DEF Disk
    <3>3. checks[i].error \in UnknownAlignment
      BY <3>1, <3>2 DEF UnknownAlignment
    <3> QED
      BY <3>1, <3>3, Zenon DEF ConfigErrorMeans
  <2>15. CASE i = 14
    <3>1. (c.ioMode = "direct" /\ d.alignment > 0 /\ c.blockSize % d.alignment # 0) /\ checks[i].error = {"I/O", "block size"}
      BY <1>3, <1>4, <1>5, <2>15
    <3> QED
      BY <3>1, Zenon DEF ConfigErrorMeans
  <2>16. CASE i = 15
    <3>1. (c.ioMode = "direct" /\ d.alignment > 0 /\ c.size % d.alignment # 0) /\ checks[i].error = {"I/O", "data size"}
      BY <1>3, <1>4, <1>5, <2>16
    <3> QED
      BY <3>1, Zenon DEF ConfigErrorMeans
  <2> QED
    BY <2>1, <2>2, <2>3, <2>4, <2>5, <2>6, <2>7, <2>8, <2>9, <2>10, <2>11, <2>12, <2>13,
       <2>14, <2>15, <2>16
<1>6. ValidateConfig(c, d) = FirstError(checks, {})
  BY <1>1 DEF ValidateConfig
<1>7. Len(checks) \in Nat
  BY <1>2
<1>8. CASE FirstError(checks, {}) = {}
  BY <1>6, <1>8
<1>9. CASE FirstError(checks, {}) # {}
  <2>1. PICK i \in 1..Len(checks) :
          /\ checks[i].wrong /\ FirstError(checks, {}) = checks[i].error
          /\ \A j \in 1..(i - 1) : ~checks[j].wrong
    BY <1>7, <1>9, FirstErrorNamed
  <2>2. ConfigErrorMeans(c, d, checks[i].error)
    BY <1>2, <1>5, <2>1
  <2> QED
    BY <1>6, <2>1, <2>2
<1> QED
  BY <1>8, <1>9

\* The first phrase of the list that an error contains names its field.
LEMMA PhraseNamesField ==
  ASSUME NEW error, NEW i \in 1..12, phraseFields[i][1] \in error,
         \A j \in 1..(i - 1) : phraseFields[j][1] \notin error
  PROVE  configErrorField(error) = phraseFields[i][2]
<1> DEFINE I == {k \in 1..Len(phraseFields) : phraseFields[k][1] \in error}
<1>1. Len(phraseFields) = 12
  BY DEF phraseFields
<1>2. SelectInSeq(phraseFields, LAMBDA entry : entry[1] \in error) = IF I # {} THEN Min(I) ELSE 0
  BY DEF SelectInSeq
<1>3. i \in I /\ \A m \in I : i <= m
  BY <1>1
<1>4. Min(I) = i
  <2>1. Min(I) \in I /\ \A m \in I : Min(I) <= m
    BY <1>3 DEF Min
  <2> QED
    BY <1>1, <1>3, <2>1
<1>5. i # 0 /\ I # {}
  BY <1>3
<1> QED
  BY <1>2, <1>4, <1>5 DEF configErrorField, fieldOfPhrases

\* The field of every error of a configuration.
LEMMA FieldsOfErrors ==
  /\ configErrorField({"directory"}) = "directory" /\ configErrorField({"benchmark path"}) = "directory"
  /\ configErrorField({"data size"}) = "size" /\ configErrorField({"block size"}) = "blockSize"
  /\ configErrorField({"block size", "data size"}) = "blockSize"
  /\ configErrorField({"iterations"}) = "iterations"
  /\ configErrorField({"warm-up", "iterations"}) = "warmupIterations"
  /\ configErrorField({"duration"}) = "duration" /\ configErrorField({"workers"}) = "workers"
  /\ configErrorField({"queue depth"}) = "queueDepth"
  /\ configErrorField({"random read"}) = "randomReadPercent"
  /\ configErrorField({"I/O"}) = "ioMode" /\ configErrorField({"I/O", "block size"}) = "blockSize"
  /\ configErrorField({"I/O", "data size"}) = "size"
<1>1. /\ phraseFields[1][1] = "directory" /\ phraseFields[1][2] = "directory"
      /\ phraseFields[2][1] = "benchmark path" /\ phraseFields[2][2] = "directory"
      /\ phraseFields[3][1] = "block size" /\ phraseFields[3][2] = "blockSize"
      /\ phraseFields[4][1] = "data size" /\ phraseFields[4][2] = "size"
      /\ phraseFields[5][1] = "warm-up" /\ phraseFields[5][2] = "warmupIterations"
      /\ phraseFields[6][1] = "iterations" /\ phraseFields[6][2] = "iterations"
      /\ phraseFields[7][1] = "duration" /\ phraseFields[7][2] = "duration"
      /\ phraseFields[8][1] = "workers" /\ phraseFields[8][2] = "workers"
      /\ phraseFields[9][1] = "queue depth" /\ phraseFields[9][2] = "queueDepth"
      /\ phraseFields[10][1] = "random read" /\ phraseFields[10][2] = "randomReadPercent"
      /\ phraseFields[11][1] = "I/O" /\ phraseFields[11][2] = "ioMode"
  BY DEF phraseFields
<1>2. configErrorField({"directory"}) = "directory"
  <2>1. 1 \in 1..12
    OBVIOUS
  <2>2. phraseFields[1][1] \in {"directory"}
    BY <1>1, Zenon
  <2>3. \A j \in 1..(1 - 1) : FALSE
    OBVIOUS
  <2>4. configErrorField({"directory"}) = phraseFields[1][2]
    BY <2>1, <2>2, <2>3, PhraseNamesField
  <2> QED
    BY <1>1, <2>4
<1>3. configErrorField({"benchmark path"}) = "directory"
  <2>1. 2 \in 1..12
    OBVIOUS
  <2>2. phraseFields[2][1] \in {"benchmark path"}
    BY <1>1, Zenon
  <2>3. \A j \in 1..(2 - 1) : j \in {1}
    OBVIOUS
  <2>4. /\ phraseFields[1][1] \notin {"benchmark path"}
    BY <1>1
  <2>5. \A j \in 1..(2 - 1) : phraseFields[j][1] \notin {"benchmark path"}
    BY <2>3, <2>4
  <2>6. configErrorField({"benchmark path"}) = phraseFields[2][2]
    BY <2>1, <2>2, <2>5, PhraseNamesField
  <2> QED
    BY <1>1, <2>6
<1>4. configErrorField({"data size"}) = "size"
  <2>1. 4 \in 1..12
    OBVIOUS
  <2>2. phraseFields[4][1] \in {"data size"}
    BY <1>1, Zenon
  <2>3. \A j \in 1..(4 - 1) : j \in {1, 2, 3}
    OBVIOUS
  <2>4. /\ phraseFields[1][1] \notin {"data size"} /\ phraseFields[2][1] \notin {"data size"}
        /\ phraseFields[3][1] \notin {"data size"}
    BY <1>1
  <2>5. \A j \in 1..(4 - 1) : phraseFields[j][1] \notin {"data size"}
    BY <2>3, <2>4
  <2>6. configErrorField({"data size"}) = phraseFields[4][2]
    BY <2>1, <2>2, <2>5, PhraseNamesField
  <2> QED
    BY <1>1, <2>6
<1>5. configErrorField({"block size"}) = "blockSize"
  <2>1. 3 \in 1..12
    OBVIOUS
  <2>2. phraseFields[3][1] \in {"block size"}
    BY <1>1, Zenon
  <2>3. \A j \in 1..(3 - 1) : j \in {1, 2}
    OBVIOUS
  <2>4. /\ phraseFields[1][1] \notin {"block size"} /\ phraseFields[2][1] \notin {"block size"}
    BY <1>1
  <2>5. \A j \in 1..(3 - 1) : phraseFields[j][1] \notin {"block size"}
    BY <2>3, <2>4
  <2>6. configErrorField({"block size"}) = phraseFields[3][2]
    BY <2>1, <2>2, <2>5, PhraseNamesField
  <2> QED
    BY <1>1, <2>6
<1>6. configErrorField({"block size", "data size"}) = "blockSize"
  <2>1. 3 \in 1..12
    OBVIOUS
  <2>2. phraseFields[3][1] \in {"block size", "data size"}
    BY <1>1, Zenon
  <2>3. \A j \in 1..(3 - 1) : j \in {1, 2}
    OBVIOUS
  <2>4. /\ phraseFields[1][1] \notin {"block size", "data size"} /\ phraseFields[2][1] \notin {"block size", "data size"}
    BY <1>1
  <2>5. \A j \in 1..(3 - 1) : phraseFields[j][1] \notin {"block size", "data size"}
    BY <2>3, <2>4
  <2>6. configErrorField({"block size", "data size"}) = phraseFields[3][2]
    BY <2>1, <2>2, <2>5, PhraseNamesField
  <2> QED
    BY <1>1, <2>6
<1>7. configErrorField({"iterations"}) = "iterations"
  <2>1. 6 \in 1..12
    OBVIOUS
  <2>2. phraseFields[6][1] \in {"iterations"}
    BY <1>1, Zenon
  <2>3. \A j \in 1..(6 - 1) : j \in {1, 2, 3, 4, 5}
    OBVIOUS
  <2>4. /\ phraseFields[1][1] \notin {"iterations"} /\ phraseFields[2][1] \notin {"iterations"}
        /\ phraseFields[3][1] \notin {"iterations"} /\ phraseFields[4][1] \notin {"iterations"}
        /\ phraseFields[5][1] \notin {"iterations"}
    BY <1>1
  <2>5. \A j \in 1..(6 - 1) : phraseFields[j][1] \notin {"iterations"}
    BY <2>3, <2>4
  <2>6. configErrorField({"iterations"}) = phraseFields[6][2]
    BY <2>1, <2>2, <2>5, PhraseNamesField
  <2> QED
    BY <1>1, <2>6
<1>8. configErrorField({"warm-up", "iterations"}) = "warmupIterations"
  <2>1. 5 \in 1..12
    OBVIOUS
  <2>2. phraseFields[5][1] \in {"warm-up", "iterations"}
    BY <1>1, Zenon
  <2>3. \A j \in 1..(5 - 1) : j \in {1, 2, 3, 4}
    OBVIOUS
  <2>4. /\ phraseFields[1][1] \notin {"warm-up", "iterations"} /\ phraseFields[2][1] \notin {"warm-up", "iterations"}
        /\ phraseFields[3][1] \notin {"warm-up", "iterations"} /\ phraseFields[4][1] \notin {"warm-up", "iterations"}
    BY <1>1
  <2>5. \A j \in 1..(5 - 1) : phraseFields[j][1] \notin {"warm-up", "iterations"}
    BY <2>3, <2>4
  <2>6. configErrorField({"warm-up", "iterations"}) = phraseFields[5][2]
    BY <2>1, <2>2, <2>5, PhraseNamesField
  <2> QED
    BY <1>1, <2>6
<1>9. configErrorField({"duration"}) = "duration"
  <2>1. 7 \in 1..12
    OBVIOUS
  <2>2. phraseFields[7][1] \in {"duration"}
    BY <1>1, Zenon
  <2>3. \A j \in 1..(7 - 1) : j \in {1, 2, 3, 4, 5, 6}
    OBVIOUS
  <2>4. /\ phraseFields[1][1] \notin {"duration"} /\ phraseFields[2][1] \notin {"duration"}
        /\ phraseFields[3][1] \notin {"duration"} /\ phraseFields[4][1] \notin {"duration"}
        /\ phraseFields[5][1] \notin {"duration"} /\ phraseFields[6][1] \notin {"duration"}
    BY <1>1
  <2>5. \A j \in 1..(7 - 1) : phraseFields[j][1] \notin {"duration"}
    BY <2>3, <2>4
  <2>6. configErrorField({"duration"}) = phraseFields[7][2]
    BY <2>1, <2>2, <2>5, PhraseNamesField
  <2> QED
    BY <1>1, <2>6
<1>10. configErrorField({"workers"}) = "workers"
  <2>1. 8 \in 1..12
    OBVIOUS
  <2>2. phraseFields[8][1] \in {"workers"}
    BY <1>1, Zenon
  <2>3. \A j \in 1..(8 - 1) : j \in {1, 2, 3, 4, 5, 6, 7}
    OBVIOUS
  <2>4. /\ phraseFields[1][1] \notin {"workers"} /\ phraseFields[2][1] \notin {"workers"}
        /\ phraseFields[3][1] \notin {"workers"} /\ phraseFields[4][1] \notin {"workers"}
        /\ phraseFields[5][1] \notin {"workers"} /\ phraseFields[6][1] \notin {"workers"}
        /\ phraseFields[7][1] \notin {"workers"}
    BY <1>1
  <2>5. \A j \in 1..(8 - 1) : phraseFields[j][1] \notin {"workers"}
    BY <2>3, <2>4
  <2>6. configErrorField({"workers"}) = phraseFields[8][2]
    BY <2>1, <2>2, <2>5, PhraseNamesField
  <2> QED
    BY <1>1, <2>6
<1>11. configErrorField({"queue depth"}) = "queueDepth"
  <2>1. 9 \in 1..12
    OBVIOUS
  <2>2. phraseFields[9][1] \in {"queue depth"}
    BY <1>1, Zenon
  <2>3. \A j \in 1..(9 - 1) : j \in {1, 2, 3, 4, 5, 6, 7, 8}
    OBVIOUS
  <2>4. /\ phraseFields[1][1] \notin {"queue depth"} /\ phraseFields[2][1] \notin {"queue depth"}
        /\ phraseFields[3][1] \notin {"queue depth"} /\ phraseFields[4][1] \notin {"queue depth"}
        /\ phraseFields[5][1] \notin {"queue depth"} /\ phraseFields[6][1] \notin {"queue depth"}
        /\ phraseFields[7][1] \notin {"queue depth"} /\ phraseFields[8][1] \notin {"queue depth"}
    BY <1>1
  <2>5. \A j \in 1..(9 - 1) : phraseFields[j][1] \notin {"queue depth"}
    BY <2>3, <2>4
  <2>6. configErrorField({"queue depth"}) = phraseFields[9][2]
    BY <2>1, <2>2, <2>5, PhraseNamesField
  <2> QED
    BY <1>1, <2>6
<1>12. configErrorField({"random read"}) = "randomReadPercent"
  <2>1. 10 \in 1..12
    OBVIOUS
  <2>2. phraseFields[10][1] \in {"random read"}
    BY <1>1, Zenon
  <2>3. \A j \in 1..(10 - 1) : j \in {1, 2, 3, 4, 5, 6, 7, 8, 9}
    OBVIOUS
  <2>4. /\ phraseFields[1][1] \notin {"random read"} /\ phraseFields[2][1] \notin {"random read"}
        /\ phraseFields[3][1] \notin {"random read"} /\ phraseFields[4][1] \notin {"random read"}
        /\ phraseFields[5][1] \notin {"random read"} /\ phraseFields[6][1] \notin {"random read"}
        /\ phraseFields[7][1] \notin {"random read"} /\ phraseFields[8][1] \notin {"random read"}
        /\ phraseFields[9][1] \notin {"random read"}
    BY <1>1
  <2>5. \A j \in 1..(10 - 1) : phraseFields[j][1] \notin {"random read"}
    BY <2>3, <2>4
  <2>6. configErrorField({"random read"}) = phraseFields[10][2]
    BY <2>1, <2>2, <2>5, PhraseNamesField
  <2> QED
    BY <1>1, <2>6
<1>13. configErrorField({"I/O"}) = "ioMode"
  <2>1. 11 \in 1..12
    OBVIOUS
  <2>2. phraseFields[11][1] \in {"I/O"}
    BY <1>1, Zenon
  <2>3. \A j \in 1..(11 - 1) : j \in {1, 2, 3, 4, 5, 6, 7, 8, 9, 10}
    OBVIOUS
  <2>4. /\ phraseFields[1][1] \notin {"I/O"} /\ phraseFields[2][1] \notin {"I/O"}
        /\ phraseFields[3][1] \notin {"I/O"} /\ phraseFields[4][1] \notin {"I/O"}
        /\ phraseFields[5][1] \notin {"I/O"} /\ phraseFields[6][1] \notin {"I/O"}
        /\ phraseFields[7][1] \notin {"I/O"} /\ phraseFields[8][1] \notin {"I/O"}
        /\ phraseFields[9][1] \notin {"I/O"} /\ phraseFields[10][1] \notin {"I/O"}
    BY <1>1
  <2>5. \A j \in 1..(11 - 1) : phraseFields[j][1] \notin {"I/O"}
    BY <2>3, <2>4
  <2>6. configErrorField({"I/O"}) = phraseFields[11][2]
    BY <2>1, <2>2, <2>5, PhraseNamesField
  <2> QED
    BY <1>1, <2>6
<1>14. configErrorField({"I/O", "block size"}) = "blockSize"
  <2>1. 3 \in 1..12
    OBVIOUS
  <2>2. phraseFields[3][1] \in {"I/O", "block size"}
    BY <1>1, Zenon
  <2>3. \A j \in 1..(3 - 1) : j \in {1, 2}
    OBVIOUS
  <2>4. /\ phraseFields[1][1] \notin {"I/O", "block size"} /\ phraseFields[2][1] \notin {"I/O", "block size"}
    BY <1>1
  <2>5. \A j \in 1..(3 - 1) : phraseFields[j][1] \notin {"I/O", "block size"}
    BY <2>3, <2>4
  <2>6. configErrorField({"I/O", "block size"}) = phraseFields[3][2]
    BY <2>1, <2>2, <2>5, PhraseNamesField
  <2> QED
    BY <1>1, <2>6
<1>15. configErrorField({"I/O", "data size"}) = "size"
  <2>1. 4 \in 1..12
    OBVIOUS
  <2>2. phraseFields[4][1] \in {"I/O", "data size"}
    BY <1>1, Zenon
  <2>3. \A j \in 1..(4 - 1) : j \in {1, 2, 3}
    OBVIOUS
  <2>4. /\ phraseFields[1][1] \notin {"I/O", "data size"} /\ phraseFields[2][1] \notin {"I/O", "data size"}
        /\ phraseFields[3][1] \notin {"I/O", "data size"}
    BY <1>1
  <2>5. \A j \in 1..(4 - 1) : phraseFields[j][1] \notin {"I/O", "data size"}
    BY <2>3, <2>4
  <2>6. configErrorField({"I/O", "data size"}) = phraseFields[4][2]
    BY <2>1, <2>2, <2>5, PhraseNamesField
  <2> QED
    BY <1>1, <2>6
<1> QED
  BY <1>2, <1>3, <1>4, <1>5, <1>6, <1>7, <1>8, <1>9, <1>10, <1>11, <1>12, <1>13,
     <1>14, <1>15

\* An unknown alignment is blamed on the mode, or on what the platform says.
LEMMA FieldOfUnknownAlignment ==
  ASSUME NEW error \in UnknownAlignment
  PROVE  configErrorField(error) \in {"directory", "blockSize", "ioMode"}
<1>1. /\ 1 \in 1..12 /\ 3 \in 1..12 /\ 11 \in 1..12
      /\ \A j \in 1..(1 - 1) : FALSE
      /\ \A j \in 1..(3 - 1) : j \in {1, 2}
      /\ \A j \in 1..(11 - 1) : j \in {1, 2, 3, 4, 5, 6, 7, 8, 9, 10}
  OBVIOUS
<1>2. PICK complaint \in SUBSET {"directory", "block size"} : error = {"I/O"} \cup complaint
  BY DEF UnknownAlignment
<1>3. /\ phraseFields[1][1] = "directory" /\ phraseFields[1][2] = "directory"
      /\ phraseFields[2][1] = "benchmark path"
      /\ phraseFields[3][1] = "block size" /\ phraseFields[3][2] = "blockSize"
      /\ phraseFields[4][1] = "data size" /\ phraseFields[5][1] = "warm-up"
      /\ phraseFields[6][1] = "iterations" /\ phraseFields[7][1] = "duration"
      /\ phraseFields[8][1] = "workers" /\ phraseFields[9][1] = "queue depth"
      /\ phraseFields[10][1] = "random read"
      /\ phraseFields[11][1] = "I/O" /\ phraseFields[11][2] = "ioMode"
  BY DEF phraseFields
<1>4. \A phrase \in error : phrase \in {"I/O", "directory", "block size"}
  BY <1>2
<1>5. CASE "directory" \in error
  <2>1. phraseFields[1][1] \in error /\ \A j \in 1..(1 - 1) : phraseFields[j][1] \notin error
    BY <1>1, <1>3, <1>5
  <2>2. configErrorField(error) = phraseFields[1][2]
    BY <1>1, <2>1, PhraseNamesField, Zenon
  <2> QED
    BY <1>3, <2>2
<1>6. CASE "directory" \notin error /\ "block size" \in error
  <2>1. phraseFields[1][1] \notin error /\ phraseFields[2][1] \notin error
    BY <1>3, <1>4, <1>6
  <2>2. \A j \in 1..(3 - 1) : phraseFields[j][1] \notin error
    BY <1>1, <2>1
  <2>3. phraseFields[3][1] \in error
    BY <1>3, <1>6
  <2>4. configErrorField(error) = phraseFields[3][2]
    BY <1>1, <2>2, <2>3, PhraseNamesField, Zenon
  <2> QED
    BY <1>3, <2>4
<1>7. CASE "directory" \notin error /\ "block size" \notin error
  <2>1. /\ phraseFields[1][1] \notin error /\ phraseFields[2][1] \notin error
        /\ phraseFields[3][1] \notin error /\ phraseFields[4][1] \notin error
        /\ phraseFields[5][1] \notin error /\ phraseFields[6][1] \notin error
        /\ phraseFields[7][1] \notin error /\ phraseFields[8][1] \notin error
        /\ phraseFields[9][1] \notin error /\ phraseFields[10][1] \notin error
    BY <1>3, <1>4, <1>7
  <2>2. \A j \in 1..(11 - 1) : phraseFields[j][1] \notin error
    BY <1>1, <2>1
  <2>3. phraseFields[11][1] \in error
    BY <1>2, <1>3
  <2>4. configErrorField(error) = phraseFields[11][2]
    BY <1>1, <2>2, <2>3, PhraseNamesField, Zenon
  <2> QED
    BY <1>3, <2>4
<1> QED
  BY <1>5, <1>6, <1>7

\* What is wrong with a request whose error blames a field.
BlameMeans(r, d, blame) ==
  \/ blame = Blame("size", {"size"}) /\ ParseBytes(r.size) = Garbled
  \/ blame = Blame("blockSize", {"blockSize"}) /\ ParseBytes(r.blockSize) = Garbled
  \/ blame = Blame("duration", {"duration"}) /\ r.duration = Garbled
  \/ blame = Blame("randomSeed", {"randomSeed"}) /\ serviceSeed(r) = Garbled
  \/ blame = Blame("ioMode", {"ioMode"}) /\ r.ioMode \notin IOModes
  \/ blame = Blame("cacheControl", {"cacheControl"}) /\ r.cacheControl \notin CacheControls
  \/ blame = Blame("suiteFile", {"suiteFile"}) /\ r.suiteFile
  \/ blame = Blame("workload", {"workload"}) /\ ~r.suiteFile /\ BuiltIn(r.workload).error
  \/ blame = Blame("directory", {"directory"}) /\ r.directory \in {"", "missing", "unreadable"}
  \/ blame = Blame("directory", {"benchmark path"}) /\ r.directory = "file"
  \/ blame = Blame("size", {"data size"}) /\ ParseBytes(r.size) <= 0
  \/ blame = Blame("blockSize", {"block size"}) /\ ParseBytes(r.blockSize) <= 0
  \/ blame = Blame("blockSize", {"block size", "data size"}) /\ ParseBytes(r.blockSize) > ParseBytes(r.size) /\ ~(ParseBytes(r.size) <= 0)
  \/ blame = Blame("iterations", {"iterations"}) /\ r.iterations <= 0
  \/ blame = Blame("warmupIterations", {"warm-up", "iterations"}) /\ r.warmupIterations < 0
  \/ blame = Blame("duration", {"duration"}) /\ r.duration < 0
  \/ blame = Blame("workers", {"workers"}) /\ r.workers < 0
  \/ blame = Blame("queueDepth", {"queue depth"}) /\ r.queueDepth < 0
  \/ blame = Blame("randomReadPercent", {"random read"}) /\ r.randomReadPercent \notin 0..100
  \/ /\ blame.message \in UnknownAlignment /\ blame.field \in {"directory", "blockSize", "ioMode"}
     /\ r.ioMode = "direct" /\ d.alignment <= 0
  \/ blame = Blame("blockSize", {"I/O", "block size"}) /\ d.alignment > 0 /\ ParseBytes(r.blockSize) % d.alignment # 0
  \/ blame = Blame("size", {"I/O", "data size"}) /\ d.alignment > 0 /\ ParseBytes(r.size) % d.alignment # 0
  \/ blame = Blame("size", {"disk space"}) /\ ParseBytes(r.size) > d.available

\* An error of the configuration of a request blames what is wrong with it.
LEMMA ConfigBlameMeans ==
  ASSUME NEW r, NEW seed, NEW selection, NEW d, NEW error,
         ConfigErrorMeans(normalized(Config(r, seed, selection)), d, error)
  PROVE  BlameMeans(r, d, Blame(configErrorField(error), error))
<1>1. PICK c : c = normalized(Config(r, seed, selection))
  OBVIOUS
<1>2. /\ c.directory = r.directory /\ c.size = ParseBytes(r.size) /\ c.blockSize = ParseBytes(r.blockSize)
      /\ c.iterations = r.iterations /\ c.warmupIterations = r.warmupIterations
      /\ c.duration = r.duration /\ c.randomReadPercent = r.randomReadPercent /\ c.ioMode = r.ioMode
  BY <1>1 DEF normalized, Config
<1>3. c.workers < 0 => r.workers < 0
  BY <1>1 DEF normalized, Config
<1>4. c.queueDepth < 0 => r.queueDepth < 0
  BY <1>1 DEF normalized, Config
<1>5. ConfigErrorMeans(c, d, error)
  BY <1>1
<1>6. CASE error = {"directory"} /\ c.directory \in {"", "missing"}
  <2>1. r.directory \in {"", "missing", "unreadable"}
    BY <1>2, <1>6
  <2>2. Blame(configErrorField(error), error) = Blame("directory", {"directory"})
    BY <1>6, FieldsOfErrors, Zenon
  <2> QED
    BY <2>1, <2>2, Zenon DEF BlameMeans
<1>7. CASE error = {"benchmark path"} /\ c.directory = "file"
  <2>1. r.directory = "file"
    BY <1>2, <1>7, Zenon
  <2>2. Blame(configErrorField(error), error) = Blame("directory", {"benchmark path"})
    BY <1>7, FieldsOfErrors, Zenon
  <2> QED
    BY <2>1, <2>2, Zenon DEF BlameMeans
<1>8. CASE error = {"data size"} /\ c.size <= 0
  <2>1. ParseBytes(r.size) <= 0
    BY <1>2, <1>8, Zenon
  <2>2. Blame(configErrorField(error), error) = Blame("size", {"data size"})
    BY <1>8, FieldsOfErrors, Zenon
  <2> QED
    BY <2>1, <2>2, Zenon DEF BlameMeans
<1>9. CASE error = {"block size"} /\ c.blockSize <= 0
  <2>1. ParseBytes(r.blockSize) <= 0
    BY <1>2, <1>9, Zenon
  <2>2. Blame(configErrorField(error), error) = Blame("blockSize", {"block size"})
    BY <1>9, FieldsOfErrors, Zenon
  <2> QED
    BY <2>1, <2>2, Zenon DEF BlameMeans
<1>10. CASE error = {"block size", "data size"} /\ c.blockSize > c.size /\ ~(c.size <= 0)
  <2>1. ParseBytes(r.blockSize) > ParseBytes(r.size) /\ ~(ParseBytes(r.size) <= 0)
    BY <1>2, <1>10, Zenon
  <2>2. Blame(configErrorField(error), error) = Blame("blockSize", {"block size", "data size"})
    BY <1>10, FieldsOfErrors, Zenon
  <2> QED
    BY <2>1, <2>2, Zenon DEF BlameMeans
<1>11. CASE error = {"iterations"} /\ c.iterations <= 0
  <2>1. r.iterations <= 0
    BY <1>2, <1>11, Zenon
  <2>2. Blame(configErrorField(error), error) = Blame("iterations", {"iterations"})
    BY <1>11, FieldsOfErrors, Zenon
  <2> QED
    BY <2>1, <2>2, Zenon DEF BlameMeans
<1>12. CASE error = {"warm-up", "iterations"} /\ c.warmupIterations < 0
  <2>1. r.warmupIterations < 0
    BY <1>2, <1>12, Zenon
  <2>2. Blame(configErrorField(error), error) = Blame("warmupIterations", {"warm-up", "iterations"})
    BY <1>12, FieldsOfErrors, Zenon
  <2> QED
    BY <2>1, <2>2, Zenon DEF BlameMeans
<1>13. CASE error = {"duration"} /\ c.duration < 0
  <2>1. r.duration < 0
    BY <1>2, <1>13, Zenon
  <2>2. Blame(configErrorField(error), error) = Blame("duration", {"duration"})
    BY <1>13, FieldsOfErrors, Zenon
  <2> QED
    BY <2>1, <2>2, Zenon DEF BlameMeans
<1>14. CASE error = {"workers"} /\ c.workers < 0
  <2>1. r.workers < 0
    BY <1>14, <1>3, Zenon
  <2>2. Blame(configErrorField(error), error) = Blame("workers", {"workers"})
    BY <1>14, FieldsOfErrors, Zenon
  <2> QED
    BY <2>1, <2>2, Zenon DEF BlameMeans
<1>15. CASE error = {"queue depth"} /\ c.queueDepth < 0
  <2>1. r.queueDepth < 0
    BY <1>15, <1>4, Zenon
  <2>2. Blame(configErrorField(error), error) = Blame("queueDepth", {"queue depth"})
    BY <1>15, FieldsOfErrors, Zenon
  <2> QED
    BY <2>1, <2>2, Zenon DEF BlameMeans
<1>16. CASE error = {"random read"} /\ c.randomReadPercent \notin 0..100
  <2>1. r.randomReadPercent \notin 0..100
    BY <1>2, <1>16, Zenon
  <2>2. Blame(configErrorField(error), error) = Blame("randomReadPercent", {"random read"})
    BY <1>16, FieldsOfErrors, Zenon
  <2> QED
    BY <2>1, <2>2, Zenon DEF BlameMeans
<1>17. CASE error \in UnknownAlignment /\ c.ioMode = "direct" /\ d.alignment <= 0
  <2>1. r.ioMode = "direct" /\ d.alignment <= 0
    BY <1>2, <1>17, Zenon
  <2>2. PICK blame : blame = Blame(configErrorField(error), error)
    OBVIOUS
  <2>3. blame.message = error /\ blame.field = configErrorField(error)
    BY <2>2 DEF Blame
  <2>4. blame.message \in UnknownAlignment /\ blame.field \in {"directory", "blockSize", "ioMode"}
    BY <1>17, <2>3, FieldOfUnknownAlignment, Zenon
  <2>5. BlameMeans(r, d, blame)
    BY <2>1, <2>4, Zenon DEF BlameMeans
  <2> QED
    BY <2>2, <2>5, Zenon
<1>18. CASE error = {"I/O", "block size"} /\ d.alignment > 0 /\ c.blockSize % d.alignment # 0
  <2>1. d.alignment > 0 /\ ParseBytes(r.blockSize) % d.alignment # 0
    BY <1>2, <1>18, Zenon
  <2>2. Blame(configErrorField(error), error) = Blame("blockSize", {"I/O", "block size"})
    BY <1>18, FieldsOfErrors, Zenon
  <2> QED
    BY <2>1, <2>2, Zenon DEF BlameMeans
<1>19. CASE error = {"I/O", "data size"} /\ d.alignment > 0 /\ c.size % d.alignment # 0
  <2>1. d.alignment > 0 /\ ParseBytes(r.size) % d.alignment # 0
    BY <1>2, <1>19, Zenon
  <2>2. Blame(configErrorField(error), error) = Blame("size", {"I/O", "data size"})
    BY <1>19, FieldsOfErrors, Zenon
  <2> QED
    BY <2>1, <2>2, Zenon DEF BlameMeans
<1> QED
  BY <1>5, <1>6, <1>7, <1>8, <1>9, <1>10, <1>11, <1>12, <1>13, <1>14, <1>15,
     <1>16, <1>17, <1>18, <1>19, Zenon DEF ConfigErrorMeans

\* A request that is rejected has something wrong with it.
LEMMA BlameIsJustified ==
  ASSUME NEW r, NEW s, NEW d \in Disk
  PROVE  \/ buildBenchmark(r, s, d).blame = Accepted
         \/ BlameMeans(r, d, buildBenchmark(r, s, d).blame)
<1> DEFINE selection == SelectionOf(r.workload, r, s)
           wanted == Config(r, serviceSeed(r), selection)
           invalid == ValidateConfig(normalized(wanted), d)
           list == <<
             Parse(wanted.size = Garbled, "size"),
             Parse(wanted.blockSize = Garbled, "blockSize"),
             Parse(r.duration = Garbled, "duration"),
             Parse(wanted.randomSeed = Garbled, "randomSeed"),
             Parse(r.ioMode \notin IOModes, "ioMode"),
             Parse(r.cacheControl \notin CacheControls, "cacheControl"),
             Parse(selection.error, IF r.suiteFile THEN "suiteFile" ELSE "workload"),
             Check(invalid # {}, Blame(configErrorField(invalid), invalid)),
             Parse(r.directory = "unreadable", "directory"),
             Check(wanted.size > d.available, Blame("size", {"disk space"}))>>
           blame == FirstError(list, Accepted)
<1>1. buildBenchmark(r, s, d) = IF blame = Accepted THEN Built(wanted, selection) ELSE Rejected(blame)
  BY Zenon DEF buildBenchmark
<1>2. buildBenchmark(r, s, d).blame = blame
  <2> HIDE DEF blame, wanted, selection
  <2> QED
    BY <1>1 DEF Built, Rejected
<1>3. PICK checks : checks = list
  <2> HIDE DEF list
  <2> QED
    OBVIOUS
<1>4. Len(checks) = 10
  BY <1>3 DEF Parse, Check
<1>5. /\ wanted.size = ParseBytes(r.size) /\ wanted.blockSize = ParseBytes(r.blockSize)
      /\ wanted.randomSeed = serviceSeed(r)
  BY DEF Config
<1>6. /\ checks[1].wrong <=> wanted.size = Garbled
      /\ checks[2].wrong <=> wanted.blockSize = Garbled
      /\ checks[3].wrong <=> r.duration = Garbled
      /\ checks[4].wrong <=> wanted.randomSeed = Garbled
      /\ checks[5].wrong <=> r.ioMode \notin IOModes
      /\ checks[6].wrong <=> r.cacheControl \notin CacheControls
      /\ checks[7].wrong <=> selection.error
      /\ checks[8].wrong <=> invalid # {}
      /\ checks[9].wrong <=> r.directory = "unreadable"
      /\ checks[10].wrong <=> wanted.size > d.available
  BY <1>3 DEF Parse, Check
<1>7. /\ checks[1].error = Blame("size", {"size"})
      /\ checks[2].error = Blame("blockSize", {"blockSize"})
      /\ checks[3].error = Blame("duration", {"duration"})
      /\ checks[4].error = Blame("randomSeed", {"randomSeed"})
      /\ checks[5].error = Blame("ioMode", {"ioMode"})
      /\ checks[6].error = Blame("cacheControl", {"cacheControl"})
      /\ checks[7].error = Blame(IF r.suiteFile THEN "suiteFile" ELSE "workload",
                                 {IF r.suiteFile THEN "suiteFile" ELSE "workload"})
      /\ checks[8].error = Blame(configErrorField(invalid), invalid)
      /\ checks[9].error = Blame("directory", {"directory"})
      /\ checks[10].error = Blame("size", {"disk space"})
  BY <1>3 DEF Parse, Check
<1>8. ~r.suiteFile => selection = BuiltIn(r.workload)
  BY DEF SelectionOf, Select
<1>9. invalid # {} => BlameMeans(r, d, Blame(configErrorField(invalid), invalid))
  BY ConfigErrorCaused, ConfigBlameMeans
<1> HIDE DEF selection, wanted, invalid, list, blame
<1>10. ASSUME NEW i \in 1..10, checks[i].wrong
       PROVE  BlameMeans(r, d, checks[i].error)
  <2>1. i \in {1, 2, 3, 4, 5, 6, 7, 8, 9, 10}
    OBVIOUS
  <2>2. CASE i = 1
    <3>1. ParseBytes(r.size) = Garbled
      BY <1>5, <1>6, <1>10, <2>2
    <3>2. checks[i].error = Blame("size", {"size"})
      BY <1>7, <2>2
    <3> QED
      BY <3>1, <3>2, Zenon DEF BlameMeans
  <2>3. CASE i = 2
    <3>1. ParseBytes(r.blockSize) = Garbled
      BY <1>5, <1>6, <1>10, <2>3
    <3>2. checks[i].error = Blame("blockSize", {"blockSize"})
      BY <1>7, <2>3
    <3> QED
      BY <3>1, <3>2, Zenon DEF BlameMeans
  <2>4. CASE i = 3
    <3>1. r.duration = Garbled
      BY <1>5, <1>6, <1>10, <2>4
    <3>2. checks[i].error = Blame("duration", {"duration"})
      BY <1>7, <2>4
    <3> QED
      BY <3>1, <3>2, Zenon DEF BlameMeans
  <2>5. CASE i = 4
    <3>1. serviceSeed(r) = Garbled
      BY <1>5, <1>6, <1>10, <2>5
    <3>2. checks[i].error = Blame("randomSeed", {"randomSeed"})
      BY <1>7, <2>5
    <3> QED
      BY <3>1, <3>2, Zenon DEF BlameMeans
  <2>6. CASE i = 5
    <3>1. r.ioMode \notin IOModes
      BY <1>5, <1>6, <1>10, <2>6
    <3>2. checks[i].error = Blame("ioMode", {"ioMode"})
      BY <1>7, <2>6
    <3> QED
      BY <3>1, <3>2, Zenon DEF BlameMeans
  <2>7. CASE i = 6
    <3>1. r.cacheControl \notin CacheControls
      BY <1>5, <1>6, <1>10, <2>7
    <3>2. checks[i].error = Blame("cacheControl", {"cacheControl"})
      BY <1>7, <2>7
    <3> QED
      BY <3>1, <3>2, Zenon DEF BlameMeans
  <2>8. CASE i = 7
    <3>1. selection.error
      BY <1>6, <1>10, <2>8
    <3>2. CASE r.suiteFile
      <4>1. checks[i].error = Blame("suiteFile", {"suiteFile"})
        BY <1>7, <2>8, <3>2
      <4> QED
        BY <3>2, <4>1, Zenon DEF BlameMeans
    <3>3. CASE ~r.suiteFile
      <4>1. checks[i].error = Blame("workload", {"workload"}) /\ BuiltIn(r.workload).error
        BY <1>7, <1>8, <2>8, <3>1, <3>3
      <4> QED
        BY <3>3, <4>1, Zenon DEF BlameMeans
    <3> QED
      BY <3>2, <3>3
  <2>9. CASE i = 8
    BY <1>6, <1>7, <1>9, <1>10, <2>9
  <2>10. CASE i = 9
    <3>1. r.directory \in {"", "missing", "unreadable"}
      BY <1>5, <1>6, <1>10, <2>10
    <3>2. checks[i].error = Blame("directory", {"directory"})
      BY <1>7, <2>10
    <3> QED
      BY <3>1, <3>2, Zenon DEF BlameMeans
  <2>11. CASE i = 10
    <3>1. ParseBytes(r.size) > d.available
      BY <1>5, <1>6, <1>10, <2>11
    <3>2. checks[i].error = Blame("size", {"disk space"})
      BY <1>7, <2>11
    <3> QED
      BY <3>1, <3>2, Zenon DEF BlameMeans
  <2> QED
    BY <2>1, <2>2, <2>3, <2>4, <2>5, <2>6, <2>7, <2>8, <2>9, <2>10, <2>11
<1>11. CASE blame = Accepted
  BY <1>2, <1>11
<1>12. CASE blame # Accepted
  <2>1. blame = FirstError(checks, Accepted)
    BY <1>3 DEF blame
  <2>2. Len(checks) \in Nat
    BY <1>4
  <2>3. PICK i \in 1..Len(checks) : checks[i].wrong /\ blame = checks[i].error
    BY <1>12, <2>1, <2>2, FirstErrorNamed
  <2>4. BlameMeans(r, d, checks[i].error)
    BY <1>4, <1>10, <2>3
  <2> QED
    BY <1>2, <2>3, <2>4
<1> QED
  BY <1>11, <1>12

BlamableFields ==
  {"directory", "size", "blockSize", "iterations", "warmupIterations", "workload", "suiteFile",
   "duration", "workers", "queueDepth", "randomReadPercent", "randomSeed", "ioMode",
   "cacheControl"}

SizeIsWrong(r, d, message) ==
  \/ message = {"size"} /\ ParseBytes(r.size) = Garbled
  \/ message = {"data size"} /\ ParseBytes(r.size) <= 0
  \/ message = {"I/O", "data size"} /\ d.alignment > 0 /\ ParseBytes(r.size) % d.alignment # 0
  \/ message = {"disk space"} /\ ParseBytes(r.size) > d.available

BlockSizeIsWrong(r, d, message) ==
  \/ message = {"blockSize"} /\ ParseBytes(r.blockSize) = Garbled
  \/ message = {"block size"} /\ ParseBytes(r.blockSize) <= 0
  \/ /\ message = {"block size", "data size"}
     /\ ParseBytes(r.blockSize) > ParseBytes(r.size) /\ ~(ParseBytes(r.size) <= 0)
  \/ message = {"I/O", "block size"} /\ d.alignment > 0 /\ ParseBytes(r.blockSize) % d.alignment # 0

\* The fields a rejected request can be blamed for, and what is wrong with them
\* if the alignment is known.
LEMMA BlamedFields ==
  ASSUME NEW r, NEW d, NEW blame, BlameMeans(r, d, blame)
  PROVE  /\ blame.field \in BlamableFields
         /\ \/ /\ blame.field = "directory" => r.directory \in {"", "missing", "file", "unreadable"}
               /\ blame.field = "iterations" => r.iterations <= 0
               /\ blame.field = "warmupIterations" => r.warmupIterations < 0
               /\ blame.field = "workload" => BuiltIn(r.workload).error
               /\ blame.field = "suiteFile" => r.suiteFile
               /\ blame.field = "duration" => r.duration = Garbled \/ r.duration < 0
               /\ blame.field = "workers" => r.workers < 0
               /\ blame.field = "queueDepth" => r.queueDepth < 0
               /\ blame.field = "randomReadPercent" => r.randomReadPercent \notin 0..100
               /\ blame.field = "randomSeed" => serviceSeed(r) = Garbled
               /\ blame.field = "ioMode" => r.ioMode # "buffered"
               /\ blame.field = "cacheControl" => r.cacheControl \notin CacheControls
               /\ blame.field = "size" => SizeIsWrong(r, d, blame.message)
               /\ blame.field = "blockSize" => BlockSizeIsWrong(r, d, blame.message)
            \/ d.alignment <= 0 /\ "I/O" \in blame.message
<1>1. \A field, message : Blame(field, message).field = field /\ Blame(field, message).message = message
  BY DEF Blame
<1>2. CASE blame = Blame("size", {"size"}) /\ ParseBytes(r.size) = Garbled
  <2>1. blame.field = "size" /\ blame.message = {"size"}
    BY <1>1, <1>2, Zenon
  <2>2. SizeIsWrong(r, d, blame.message)
    BY <1>2, <2>1, Zenon DEF SizeIsWrong
  <2> QED
    BY <2>1, <2>2 DEF BlamableFields
<1>3. CASE blame = Blame("blockSize", {"blockSize"}) /\ ParseBytes(r.blockSize) = Garbled
  <2>1. blame.field = "blockSize" /\ blame.message = {"blockSize"}
    BY <1>1, <1>3, Zenon
  <2>2. BlockSizeIsWrong(r, d, blame.message)
    BY <1>3, <2>1, Zenon DEF BlockSizeIsWrong
  <2> QED
    BY <2>1, <2>2 DEF BlamableFields
<1>4. CASE blame = Blame("duration", {"duration"}) /\ r.duration = Garbled
  <2>1. blame.field = "duration" /\ blame.message = {"duration"}
    BY <1>1, <1>4, Zenon
  <2>2. r.duration = Garbled \/ r.duration < 0
    BY <1>4, Zenon
  <2> QED
    BY <2>1, <2>2 DEF BlamableFields
<1>5. CASE blame = Blame("randomSeed", {"randomSeed"}) /\ serviceSeed(r) = Garbled
  <2>1. blame.field = "randomSeed" /\ blame.message = {"randomSeed"}
    BY <1>1, <1>5, Zenon
  <2>2. serviceSeed(r) = Garbled
    BY <1>5, Zenon
  <2> QED
    BY <2>1, <2>2 DEF BlamableFields
<1>6. CASE blame = Blame("ioMode", {"ioMode"}) /\ r.ioMode \notin IOModes
  <2>1. blame.field = "ioMode" /\ blame.message = {"ioMode"}
    BY <1>1, <1>6, Zenon
  <2>2. r.ioMode # "buffered"
    BY <1>6 DEF IOModes
  <2> QED
    BY <2>1, <2>2 DEF BlamableFields
<1>7. CASE blame = Blame("cacheControl", {"cacheControl"}) /\ r.cacheControl \notin CacheControls
  <2>1. blame.field = "cacheControl" /\ blame.message = {"cacheControl"}
    BY <1>1, <1>7, Zenon
  <2>2. r.cacheControl \notin CacheControls
    BY <1>7, Zenon
  <2> QED
    BY <2>1, <2>2 DEF BlamableFields
<1>8. CASE blame = Blame("suiteFile", {"suiteFile"}) /\ r.suiteFile
  <2>1. blame.field = "suiteFile" /\ blame.message = {"suiteFile"}
    BY <1>1, <1>8, Zenon
  <2>2. r.suiteFile
    BY <1>8, Zenon
  <2> QED
    BY <2>1, <2>2 DEF BlamableFields
<1>9. CASE blame = Blame("workload", {"workload"}) /\ ~r.suiteFile /\ BuiltIn(r.workload).error
  <2>1. blame.field = "workload" /\ blame.message = {"workload"}
    BY <1>1, <1>9, Zenon
  <2>2. BuiltIn(r.workload).error
    BY <1>9, Zenon
  <2> QED
    BY <2>1, <2>2 DEF BlamableFields
<1>10. CASE blame = Blame("directory", {"directory"}) /\ r.directory \in {"", "missing", "unreadable"}
  <2>1. blame.field = "directory" /\ blame.message = {"directory"}
    BY <1>1, <1>10, Zenon
  <2>2. r.directory \in {"", "missing", "file", "unreadable"}
    BY <1>10
  <2> QED
    BY <2>1, <2>2 DEF BlamableFields
<1>11. CASE blame = Blame("directory", {"benchmark path"}) /\ r.directory = "file"
  <2>1. blame.field = "directory" /\ blame.message = {"benchmark path"}
    BY <1>1, <1>11, Zenon
  <2>2. r.directory \in {"", "missing", "file", "unreadable"}
    BY <1>11
  <2> QED
    BY <2>1, <2>2 DEF BlamableFields
<1>12. CASE blame = Blame("size", {"data size"}) /\ ParseBytes(r.size) <= 0
  <2>1. blame.field = "size" /\ blame.message = {"data size"}
    BY <1>1, <1>12, Zenon
  <2>2. SizeIsWrong(r, d, blame.message)
    BY <1>12, <2>1, Zenon DEF SizeIsWrong
  <2> QED
    BY <2>1, <2>2 DEF BlamableFields
<1>13. CASE blame = Blame("blockSize", {"block size"}) /\ ParseBytes(r.blockSize) <= 0
  <2>1. blame.field = "blockSize" /\ blame.message = {"block size"}
    BY <1>1, <1>13, Zenon
  <2>2. BlockSizeIsWrong(r, d, blame.message)
    BY <1>13, <2>1, Zenon DEF BlockSizeIsWrong
  <2> QED
    BY <2>1, <2>2 DEF BlamableFields
<1>14. CASE blame = Blame("blockSize", {"block size", "data size"}) /\ ParseBytes(r.blockSize) > ParseBytes(r.size) /\ ~(ParseBytes(r.size) <= 0)
  <2>1. blame.field = "blockSize" /\ blame.message = {"block size", "data size"}
    BY <1>1, <1>14, Zenon
  <2>2. BlockSizeIsWrong(r, d, blame.message)
    BY <1>14, <2>1, Zenon DEF BlockSizeIsWrong
  <2> QED
    BY <2>1, <2>2 DEF BlamableFields
<1>15. CASE blame = Blame("iterations", {"iterations"}) /\ r.iterations <= 0
  <2>1. blame.field = "iterations" /\ blame.message = {"iterations"}
    BY <1>1, <1>15, Zenon
  <2>2. r.iterations <= 0
    BY <1>15, Zenon
  <2> QED
    BY <2>1, <2>2 DEF BlamableFields
<1>16. CASE blame = Blame("warmupIterations", {"warm-up", "iterations"}) /\ r.warmupIterations < 0
  <2>1. blame.field = "warmupIterations" /\ blame.message = {"warm-up", "iterations"}
    BY <1>1, <1>16, Zenon
  <2>2. r.warmupIterations < 0
    BY <1>16, Zenon
  <2> QED
    BY <2>1, <2>2 DEF BlamableFields
<1>17. CASE blame = Blame("duration", {"duration"}) /\ r.duration < 0
  <2>1. blame.field = "duration" /\ blame.message = {"duration"}
    BY <1>1, <1>17, Zenon
  <2>2. r.duration = Garbled \/ r.duration < 0
    BY <1>17, Zenon
  <2> QED
    BY <2>1, <2>2 DEF BlamableFields
<1>18. CASE blame = Blame("workers", {"workers"}) /\ r.workers < 0
  <2>1. blame.field = "workers" /\ blame.message = {"workers"}
    BY <1>1, <1>18, Zenon
  <2>2. r.workers < 0
    BY <1>18, Zenon
  <2> QED
    BY <2>1, <2>2 DEF BlamableFields
<1>19. CASE blame = Blame("queueDepth", {"queue depth"}) /\ r.queueDepth < 0
  <2>1. blame.field = "queueDepth" /\ blame.message = {"queue depth"}
    BY <1>1, <1>19, Zenon
  <2>2. r.queueDepth < 0
    BY <1>19, Zenon
  <2> QED
    BY <2>1, <2>2 DEF BlamableFields
<1>20. CASE blame = Blame("randomReadPercent", {"random read"}) /\ r.randomReadPercent \notin 0..100
  <2>1. blame.field = "randomReadPercent" /\ blame.message = {"random read"}
    BY <1>1, <1>20, Zenon
  <2>2. r.randomReadPercent \notin 0..100
    BY <1>20, Zenon
  <2> QED
    BY <2>1, <2>2 DEF BlamableFields
<1>21. CASE /\ blame.message \in UnknownAlignment /\ blame.field \in {"directory", "blockSize", "ioMode"}
            /\ r.ioMode = "direct" /\ d.alignment <= 0
  <2>1. "I/O" \in blame.message
    BY <1>21 DEF UnknownAlignment
  <2>2. blame.field \in BlamableFields
    BY <1>21 DEF BlamableFields
  <2> QED
    BY <1>21, <2>1, <2>2, Zenon
<1>22. CASE blame = Blame("blockSize", {"I/O", "block size"}) /\ d.alignment > 0 /\ ParseBytes(r.blockSize) % d.alignment # 0
  <2>1. blame.field = "blockSize" /\ blame.message = {"I/O", "block size"}
    BY <1>1, <1>22, Zenon
  <2>2. BlockSizeIsWrong(r, d, blame.message)
    BY <1>22, <2>1, Zenon DEF BlockSizeIsWrong
  <2> QED
    BY <2>1, <2>2 DEF BlamableFields
<1>23. CASE blame = Blame("size", {"I/O", "data size"}) /\ d.alignment > 0 /\ ParseBytes(r.size) % d.alignment # 0
  <2>1. blame.field = "size" /\ blame.message = {"I/O", "data size"}
    BY <1>1, <1>23, Zenon
  <2>2. SizeIsWrong(r, d, blame.message)
    BY <1>23, <2>1, Zenon DEF SizeIsWrong
  <2> QED
    BY <2>1, <2>2 DEF BlamableFields
<1>24. CASE blame = Blame("size", {"disk space"}) /\ ParseBytes(r.size) > d.available
  <2>1. blame.field = "size" /\ blame.message = {"disk space"}
    BY <1>1, <1>24, Zenon
  <2>2. SizeIsWrong(r, d, blame.message)
    BY <1>24, <2>1, Zenon DEF SizeIsWrong
  <2> QED
    BY <2>1, <2>2 DEF BlamableFields
<1> QED
  BY <1>2, <1>3, <1>4, <1>5, <1>6, <1>7, <1>8, <1>9, <1>10, <1>11, <1>12, <1>13,
     <1>14, <1>15, <1>16, <1>17, <1>18, <1>19, <1>20, <1>21, <1>22, <1>23, <1>24, Zenon DEF BlameMeans

\* If the alignment is unknown, only direct I/O is refused for it.
LEMMA OnlyDirectNeedsAlignment ==
  ASSUME NEW r, NEW d, NEW blame, BlameMeans(r, d, blame),
         "I/O" \in blame.message, ~(d.alignment > 0)
  PROVE  r.ioMode = "direct"
<1>1. \A field, message : Blame(field, message).message = message
  BY DEF Blame
<1>2. /\ "I/O" \notin {"size"} /\ "I/O" \notin {"blockSize"} /\ "I/O" \notin {"duration"}
      /\ "I/O" \notin {"randomSeed"} /\ "I/O" \notin {"ioMode"} /\ "I/O" \notin {"cacheControl"}
      /\ "I/O" \notin {"suiteFile"} /\ "I/O" \notin {"workload"} /\ "I/O" \notin {"directory"}
      /\ "I/O" \notin {"benchmark path"} /\ "I/O" \notin {"data size"} /\ "I/O" \notin {"block size"}
      /\ "I/O" \notin {"iterations"} /\ "I/O" \notin {"workers"} /\ "I/O" \notin {"queue depth"}
      /\ "I/O" \notin {"random read"} /\ "I/O" \notin {"disk space"} /\ "I/O" \notin {"block size", "data size"}
      /\ "I/O" \notin {"warm-up", "iterations"}
  OBVIOUS
<1>3. \A field, message : "I/O" \notin message => blame # Blame(field, message)
  BY <1>1, Zenon
<1> QED
  BY <1>2, <1>3, Zenon DEF BlameMeans

\* The blamed field of a rejected request has a proper value with which this
\* error does not occur.
LEMMA BlamedFieldHasRemedy ==
  ASSUME NEW r \in HeldRequest, NEW s, NEW d \in Disks, NEW blame,
         blame = buildBenchmark(r, s, d).blame, blame # Accepted
  PROVE  /\ blame.field \in DOMAIN Proper
         /\ ~(d.alignment = 0 /\ "I/O" \in blame.message) =>
              \E value \in Proper[blame.field] :
                buildBenchmark([r EXCEPT ![blame.field] = value], s, d).blame # blame
<1> DEFINE Repaired(value) == [r EXCEPT ![blame.field] = value]
<1>disk. d \in Disk
  BY SubmissionAssumption
<1>1. BlameMeans(r, d, blame)
  BY <1>disk, BlameIsJustified
<1>2. blame.field \in BlamableFields /\ BlamableFields \subseteq DOMAIN Proper
  BY <1>1, BlamedFields, ProperAssumption DEF BlamableFields
<1> SUFFICES ASSUME ~(d.alignment = 0 /\ "I/O" \in blame.message)
             PROVE  \E value \in Proper[blame.field] :
                      buildBenchmark([r EXCEPT ![blame.field] = value], s, d).blame # blame
  BY <1>2
<1>known. ~(d.alignment <= 0 /\ "I/O" \in blame.message)
  <2>1. d.alignment \in Nat
    BY <1>disk DEF Disk
  <2> QED
    BY <2>1
<1>3. SUFFICES \E value \in Proper[blame.field] : ~BlameMeans(Repaired(value), d, blame)
  <2>1. ASSUME NEW value \in Proper[blame.field], ~BlameMeans(Repaired(value), d, blame)
        PROVE  buildBenchmark(Repaired(value), s, d).blame # blame
    <3> HIDE DEF Repaired
    <3> QED
      BY <1>disk, <2>1, BlameIsJustified
  <2> QED
    BY <1>2, <2>1
<1>4. ASSUME NEW value, blame.field \in BlamableFields
      PROVE  Repaired(value)[blame.field] = value /\ \A f \in BlamableFields \ {blame.field} : Repaired(value)[f] = r[f]
  BY <1>4 DEF HeldRequest, BlamableFields
<1>5. d.available \in Int /\ d.alignment \in Int
  <2>1. d.available \in Nat /\ d.alignment \in Nat
    BY <1>disk DEF Disk
  <2> QED
    BY <2>1
<1> HIDE DEF Repaired
<1>6. CASE blame.field = "directory"
  <2>1. PICK v \in Proper.directory \ {"", "missing", "file", "unreadable"} : TRUE
    BY ProperAssumption
  <2>2. Repaired(v)["directory"] = v
    BY <1>2, <1>4, <1>6
  <2>3. ~BlameMeans(Repaired(v), d, blame)
    BY <1>6, <2>1, <1>known, <2>2, BlamedFields
  <2> QED
    BY <1>6, <2>1, <2>3
<1>7. CASE blame.field = "iterations"
  <2>1. PICK v \in Proper.iterations \cap (Nat \ {0}) : TRUE
    BY ProperAssumption
  <2>2. Repaired(v)["iterations"] = v
    BY <1>2, <1>4, <1>7
  <2>3. ~(Repaired(v).iterations <= 0)
    BY <2>1, <2>2
  <2>4. ~BlameMeans(Repaired(v), d, blame)
    BY <1>7, <1>known, <2>3, BlamedFields, Zenon
  <2> QED
    BY <1>7, <2>1, <2>4
<1>8. CASE blame.field = "warmupIterations"
  <2>1. PICK v \in Proper["warmupIterations"] \cap Nat : TRUE
    BY ProperAssumption
  <2>2. Repaired(v)["warmupIterations"] = v
    BY <1>2, <1>4, <1>8
  <2>3. ~(Repaired(v).warmupIterations < 0)
    BY <2>1, <2>2
  <2>4. ~BlameMeans(Repaired(v), d, blame)
    BY <1>8, <1>known, <2>3, BlamedFields, Zenon
  <2> QED
    BY <1>8, <2>1, <2>4
<1>9. CASE blame.field = "workload"
  <2>1. PICK v \in Proper.workload : ~BuiltIn(v).error
    BY ProperAssumption
  <2>2. Repaired(v)["workload"] = v
    BY <1>2, <1>4, <1>9
  <2>3. ~BlameMeans(Repaired(v), d, blame)
    BY <1>9, <2>1, <1>known, <2>2, BlamedFields
  <2> QED
    BY <1>9, <2>1, <2>3
<1>10. CASE blame.field = "suiteFile"
  <2>1. PICK v \in Proper[blame.field] : v = FALSE
    BY <1>10, ProperAssumption
  <2>2. Repaired(v)["suiteFile"] = v
    BY <1>2, <1>4, <1>10
  <2>3. ~BlameMeans(Repaired(v), d, blame)
    BY <1>10, <2>1, <1>known, <2>2, BlamedFields
  <2> QED
    BY <1>10, <2>1, <2>3
<1>11. CASE blame.field = "duration"
  <2>1. PICK v \in Proper["duration"] \cap Nat : TRUE
    BY ProperAssumption
  <2>2. Repaired(v)["duration"] = v
    BY <1>2, <1>4, <1>11
  <2>3. Repaired(v).duration # Garbled /\ ~(Repaired(v).duration < 0)
    BY <2>1, <2>2 DEF Garbled
  <2>4. ~BlameMeans(Repaired(v), d, blame)
    BY <1>11, <1>known, <2>3, BlamedFields, Zenon
  <2> QED
    BY <1>11, <2>1, <2>4
<1>12. CASE blame.field = "workers"
  <2>1. PICK v \in Proper["workers"] \cap Nat : TRUE
    BY ProperAssumption
  <2>2. Repaired(v)["workers"] = v
    BY <1>2, <1>4, <1>12
  <2>3. ~(Repaired(v).workers < 0)
    BY <2>1, <2>2
  <2>4. ~BlameMeans(Repaired(v), d, blame)
    BY <1>12, <1>known, <2>3, BlamedFields, Zenon
  <2> QED
    BY <1>12, <2>1, <2>4
<1>13. CASE blame.field = "queueDepth"
  <2>1. PICK v \in Proper["queueDepth"] \cap Nat : TRUE
    BY ProperAssumption
  <2>2. Repaired(v)["queueDepth"] = v
    BY <1>2, <1>4, <1>13
  <2>3. ~(Repaired(v).queueDepth < 0)
    BY <2>1, <2>2
  <2>4. ~BlameMeans(Repaired(v), d, blame)
    BY <1>13, <1>known, <2>3, BlamedFields, Zenon
  <2> QED
    BY <1>13, <2>1, <2>4
<1>14. CASE blame.field = "randomReadPercent"
  <2>1. PICK v \in Proper.randomReadPercent \cap 0..100 : TRUE
    BY ProperAssumption
  <2>2. Repaired(v)["randomReadPercent"] = v
    BY <1>2, <1>4, <1>14
  <2>3. ~BlameMeans(Repaired(v), d, blame)
    BY <1>14, <2>1, <1>known, <2>2, BlamedFields
  <2> QED
    BY <1>14, <2>1, <2>3
<1>15. CASE blame.field = "randomSeed"
  <2>1. PICK v \in Proper.randomSeed : ParseInt(v, decimal) # Garbled
    BY ProperAssumption
  <2>2. Repaired(v)["randomSeed"] = v
    BY <1>2, <1>4, <1>15
  <2>3. serviceSeed(Repaired(v)) # Garbled
    BY <2>1, <2>2 DEF serviceSeed
  <2>4. ~BlameMeans(Repaired(v), d, blame)
    BY <1>15, <1>known, <2>3, BlamedFields
  <2> QED
    BY <1>15, <2>1, <2>4
<1>16. CASE blame.field = "ioMode"
  <2>1. PICK v \in Proper[blame.field] : v = "buffered"
    BY <1>16, ProperAssumption
  <2>2. Repaired(v)["ioMode"] = v
    BY <1>2, <1>4, <1>16
  <2>3. ~BlameMeans(Repaired(v), d, blame)
    BY <1>16, <2>1, <1>known, <2>2, BlamedFields
  <2> QED
    BY <1>16, <2>1, <2>3
<1>17. CASE blame.field = "cacheControl"
  <2>1. PICK v \in Proper.cacheControl \cap CacheControls : TRUE
    BY ProperAssumption
  <2>2. Repaired(v)["cacheControl"] = v
    BY <1>2, <1>4, <1>17
  <2>3. ~BlameMeans(Repaired(v), d, blame)
    BY <1>17, <2>1, <1>known, <2>2, BlamedFields
  <2> QED
    BY <1>17, <2>1, <2>3
<1>18. CASE blame.field = "size"
  <2>1. \E v \in Proper["size"] : ~SizeIsWrong(Repaired(v), d, blame.message)
    <3>1. ASSUME NEW v
          PROVE  Repaired(v).size = v
      BY <1>2, <1>4, <1>18
    <3>2. CASE blame.message # {"I/O", "data size"}
      <4>1. PICK v \in Proper.size : ParseBytes(v) \in 1..d.available
        BY ProperAssumption
      <4>2. /\ ParseBytes(Repaired(v).size) # Garbled /\ ~(ParseBytes(Repaired(v).size) <= 0)
            /\ ~(ParseBytes(Repaired(v).size) > d.available)
        BY <1>5, <3>1, <4>1 DEF Garbled
      <4> QED
        BY <3>2, <4>2, Zenon DEF SizeIsWrong
    <3>3. CASE blame.message = {"I/O", "data size"}
      <4>1. CASE d.alignment > 0
        <5>1. PICK v \in Proper["size"] : ParseBytes(v) % d.alignment = 0
          BY <4>1, ProperAssumption
        <5>2. ParseBytes(Repaired(v).size) % d.alignment = 0
          BY <3>1, <5>1
        <5>3. blame.message # {"size"} /\ blame.message # {"data size"} /\ blame.message # {"disk space"}
          <6>1. "I/O" \in blame.message
            BY <3>3, Zenon
          <6>2. "I/O" \notin {"size"} /\ "I/O" \notin {"data size"} /\ "I/O" \notin {"disk space"}
            OBVIOUS
          <6> QED
            BY <6>1, <6>2, Zenon
        <5> QED
          BY <5>2, <5>3, Zenon DEF SizeIsWrong
      <4>2. CASE ~(d.alignment > 0)
        <5>1. ~SizeIsWrong(r, d, blame.message)
          <6>1. blame.message # {"size"} /\ blame.message # {"data size"} /\ blame.message # {"disk space"}
            <7>1. "I/O" \in blame.message
              BY <3>3, Zenon
            <7>2. "I/O" \notin {"size"} /\ "I/O" \notin {"data size"} /\ "I/O" \notin {"disk space"}
              OBVIOUS
            <7> QED
              BY <7>1, <7>2, Zenon
          <6> QED
            BY <4>2, <6>1, Zenon DEF SizeIsWrong
        <5> QED
          BY <1>1, <1>18, <1>known, <5>1, BlamedFields
      <4> QED
        BY <4>1, <4>2
    <3> QED
      BY <3>2, <3>3
  <2>2. PICK v \in Proper["size"] : ~SizeIsWrong(Repaired(v), d, blame.message)
    BY <2>1
  <2>3. ~BlameMeans(Repaired(v), d, blame)
    BY <1>18, <1>known, <2>2, BlamedFields
  <2> QED
    BY <1>18, <2>2, <2>3
<1>19. CASE blame.field = "blockSize"
  <2>1. \E v \in Proper["blockSize"] : ~BlockSizeIsWrong(Repaired(v), d, blame.message)
    <3>1. ASSUME NEW v
          PROVE  Repaired(v).blockSize = v /\ Repaired(v).size = r.size
      BY <1>2, <1>4, <1>19 DEF BlamableFields
    <3>2. CASE blame.message # {"I/O", "block size"}
      <4>1. PICK v \in Proper.blockSize : ParseBytes(v) = 1
        BY ProperAssumption
      <4>2. /\ ParseBytes(Repaired(v).blockSize) # Garbled /\ ~(ParseBytes(Repaired(v).blockSize) <= 0)
            /\ ~(   /\ ParseBytes(Repaired(v).blockSize) > ParseBytes(Repaired(v).size)
                    /\ ~(ParseBytes(Repaired(v).size) <= 0))
        <5>1. ParseBytes(r.size) \in Int
          BY ParseBytesType DEF HeldRequest
        <5> QED
          BY <3>1, <4>1, <5>1 DEF Garbled
      <4> QED
        BY <3>2, <4>2, Zenon DEF BlockSizeIsWrong
    <3>3. CASE blame.message = {"I/O", "block size"}
      <4>1. /\ blame.message # {"blockSize"} /\ blame.message # {"block size"}
            /\ blame.message # {"block size", "data size"}
        <5>1. "I/O" \in blame.message
          BY <3>3, Zenon
        <5>2. "I/O" \notin {"blockSize"} /\ "I/O" \notin {"block size"} /\ "I/O" \notin {"block size", "data size"}
          OBVIOUS
        <5> QED
          BY <5>1, <5>2, Zenon
      <4>2. CASE d.alignment > 0
        <5>1. PICK v \in Proper["blockSize"] : ParseBytes(v) % d.alignment = 0
          BY <4>2, ProperAssumption
        <5>2. ParseBytes(Repaired(v).blockSize) % d.alignment = 0
          BY <3>1, <5>1
        <5> QED
          BY <4>1, <5>2, Zenon DEF BlockSizeIsWrong
      <4>3. CASE ~(d.alignment > 0)
        <5>1. ~BlockSizeIsWrong(r, d, blame.message)
          BY <4>1, <4>3, Zenon DEF BlockSizeIsWrong
        <5> QED
          BY <1>1, <1>19, <1>known, <5>1, BlamedFields
      <4> QED
        BY <4>2, <4>3
    <3> QED
      BY <3>2, <3>3
  <2>2. PICK v \in Proper["blockSize"] : ~BlockSizeIsWrong(Repaired(v), d, blame.message)
    BY <2>1
  <2>3. ~BlameMeans(Repaired(v), d, blame)
    BY <1>19, <1>known, <2>2, BlamedFields
  <2> QED
    BY <1>19, <2>2, <2>3
<1> QED
  BY <1>2, <1>6, <1>7, <1>8, <1>9, <1>10, <1>11, <1>12, <1>13, <1>14, <1>15, <1>16,
     <1>17, <1>18, <1>19 DEF BlamableFields

\* In buffered mode an unknown alignment is no error.
LEMMA BufferedNeedsNoAlignment ==
  ASSUME NEW r \in HeldRequest, NEW s, NEW d \in Disk, d.alignment = 0, NEW blame, blame # Accepted,
         "I/O" \in blame.message
  PROVE  /\ "buffered" \in Proper["ioMode"]
         /\ buildBenchmark([r EXCEPT !["ioMode"] = "buffered"], s, d).blame # blame
<1>1. "buffered" \in Proper["ioMode"]
  BY ProperAssumption
<1>2. PICK repaired : repaired = [r EXCEPT !["ioMode"] = "buffered"]
  OBVIOUS
<1>3. repaired.ioMode = "buffered"
  BY <1>2 DEF HeldRequest
<1>4. ~(d.alignment > 0)
  OBVIOUS
<1>5. ~BlameMeans(repaired, d, blame)
  BY <1>3, <1>4, OnlyDirectNeedsAlignment
<1>6. buildBenchmark(repaired, s, d).blame # blame
  BY <1>5, BlameIsJustified
<1> QED
  BY <1>1, <1>2, <1>6, Zenon

\* A refusal is about the request, the suite file and the disk as they still are.
RefusedNow ==
  /\ disk \in Disks
  /\ phase = "invalid" => answer = answerNow /\ answer.built.blame # Accepted

\* A refusal is the end of a request.
LEMMA RefusedStep == RefusedNow /\ [Next]_vars => RefusedNow'
<1> SUFFICES ASSUME RefusedNow, [Next]_vars PROVE RefusedNow'
  OBVIOUS
<1>1. CASE SelectSuiteFile
  BY <1>1 DEF SelectSuiteFile, RefusedNow
<1>2. CASE ValidateBenchmark
  <2>1. answer' = answerNow /\ UNCHANGED <<request, suite, disk>>
    BY <1>2 DEF ValidateBenchmark
  <2>2. answerNow' = answerNow
    BY <2>1 DEF answerNow
  <2>3. phase' = "invalid" => answer'.built.blame # Accepted
    BY <1>2 DEF ValidateBenchmark
  <2> QED
    BY <2>1, <2>2, <2>3 DEF RefusedNow
<1>3. CASE Confirm
  BY <1>3 DEF Confirm, RefusedNow
<1>4. CASE Edit
  BY <1>4 DEF Edit, RefusedNow
<1>5. CASE StartBenchmark
  BY <1>5 DEF StartBenchmark, RefusedNow
<1>6. CASE Done \/ UNCHANGED vars
  <2>1. UNCHANGED vars
    BY <1>6 DEF Done
  <2>2. answerNow' = answerNow
    BY <2>1 DEF vars, answerNow
  <2> QED
    BY <2>1, <2>2 DEF vars, RefusedNow, Accepted, Blame
<1> QED
  BY <1>1, <1>2, <1>3, <1>4, <1>5, <1>6 DEF Next

\* The form marks a field that is at fault: configErrorField finds it by words of
\* the message, of which some name two fields and some come from the platform, yet
\* with a proper value in that field the error is gone, for every request, suite
\* file and disk.  The exception is an alignment of direct I/O that cannot be
\* told: it is always cured by the mode, whatever field is marked.
THEOREM BlameIsDeserved == Spec => []BlamedFieldIsAtFault
<1>1. Init => RefusedNow
  BY DEF Init, RefusedNow
<1>2. Inductive /\ RefusedNow => BlamedFieldIsAtFault
  <2> SUFFICES ASSUME Inductive, RefusedNow, phase = "invalid" PROVE BlamedFieldIsAtFault
    BY DEF BlamedFieldIsAtFault
  <2>1. answer.built = buildBenchmark(request, suite, disk) /\ answer.built.blame # Accepted
    <3>1. answerNow.built = buildBenchmark(request, suite, disk)
      BY DEF answerNow
    <3> QED
      BY <3>1 DEF RefusedNow
  <2>2. PICK r, s, d, blame : r = request /\ s = suite /\ d = disk /\ blame = answer.built.blame
    OBVIOUS
  <2>3. r \in HeldRequest /\ d \in Disks /\ d \in Disk
    BY <2>2 DEF Inductive, RefusedNow
  <2>4. blame = buildBenchmark(r, s, d).blame /\ blame # Accepted
    BY <2>1, <2>2
  <2>5. PICK field : field = IF d.alignment = 0 /\ "I/O" \in blame.message THEN "ioMode" ELSE blame.field
    OBVIOUS
  <2>6. blame.field \in DOMAIN Proper
    BY <2>3, <2>4, BlamedFieldHasRemedy
  <2>7. \E value \in Proper[field] : buildBenchmark([r EXCEPT ![field] = value], s, d).blame # blame
    <3>1. CASE d.alignment = 0 /\ "I/O" \in blame.message
      <4>1. field = "ioMode"
        BY <2>5, <3>1
      <4>2. /\ "buffered" \in Proper["ioMode"]
            /\ buildBenchmark([r EXCEPT !["ioMode"] = "buffered"], s, d).blame # blame
        BY <2>3, <2>4, <3>1, BufferedNeedsNoAlignment
      <4> QED
        BY <4>1, <4>2, Zenon
    <3>2. CASE ~(d.alignment = 0 /\ "I/O" \in blame.message)
      <4>1. field = blame.field
        BY <2>5, <3>2
      <4>2. \E value \in Proper[blame.field] :
              buildBenchmark([r EXCEPT ![blame.field] = value], s, d).blame # blame
        BY <2>3, <2>4, <3>2, BlamedFieldHasRemedy
      <4> QED
        BY <4>1, <4>2, Zenon
    <3> QED
      BY <3>1, <3>2
  <2> QED
    BY <2>2, <2>5, <2>6, <2>7, Zenon DEF BlamedFieldIsAtFault, AlignmentIsUnknown
<1> QED
  BY <1>1, <1>2, RefusedStep, InductiveInvariant, PTL DEF Spec
=============================================================================
