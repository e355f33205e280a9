---------------------------- MODULE MCSubmission ----------------------------
(* The default request with up to two fields changed, every one-spec suite  *)
(* of a small vocabulary and a few others, and disks of all kinds.          *)
EXTENDS Submission

Bytes(tenths, unit) == [tenths |-> tenths, unit |-> unit]
Digits(notation, high, low) == [notation |-> notation, high |-> high, low |-> low]

Default ==
  [directory |-> "dir", size |-> Bytes(40, "B"), blockSize |-> Bytes(20, "B"),
   iterations |-> 1, warmupIterations |-> 0, workload |-> "sequential", suiteFile |-> FALSE,
   duration |-> 0, workers |-> 1, queueDepth |-> 1, randomReadPercent |-> 50,
   randomSeed |-> Digits("plain", 0, 1),
   ioMode |-> "buffered", cacheControl |-> "off", confirmed |-> FALSE]

Values ==
  [directory |-> {"", "missing", "file", "unreadable"},
   size |-> {Bytes(0, "B"), Bytes(5, "B"), Bytes(10, "B"), Bytes(60, "B"), Bytes(10, "KiB"),
             Bytes(80, "KiB"), Bytes(81, "KiB"), Bytes(10, "kib")},
   blockSize |-> {Bytes(0, "B"), Bytes(10, "B"), Bytes(15, "B"), Bytes(30, "B"), Bytes(50, "B"), Bytes(5, "KiB"), Bytes(80, "KiB")},
   iterations |-> {0, 2},
   warmupIterations |-> {-1, 2},
   workload |-> {"", "random", "all", "unknown"},
   suiteFile |-> {TRUE},
   duration |-> {Garbled, -1, 2},
   workers |-> {-1, 0},
   queueDepth |-> {-1, 0},
   randomReadPercent |-> {-1, 101},
   randomSeed |-> {Digits("none", 0, 0), Digits("plain", 0, 7), Digits("plain", 3, 2),
                   Digits("leadingZero", 1, 0), Digits("leadingZero", 0, 9), Digits("leadingZero", 3, 5),
                   Digits("prefixed", 1, 15), Digits("prefixed", 2, 0), Digits("underscored", 1, 0)},
   ioMode |-> {"direct", "unknown"},
   cacheControl |-> {"require", "unknown"}]

MCProper ==
  [directory |-> {"dir"}, size |-> {Bytes(10, "B"), Bytes(40, "B"), Bytes(60, "B")},
   blockSize |-> {Bytes(10, "B"), Bytes(20, "B"), Bytes(30, "B")}, iterations |-> {1, 2},
   warmupIterations |-> {0, 2}, workload |-> {"sequential", "all"}, suiteFile |-> {FALSE},
   duration |-> {0, 2}, workers |-> {0, 1}, queueDepth |-> {0, 1},
   randomReadPercent |-> {50}, randomSeed |-> {Digits("plain", 0, 1)}, ioMode |-> IOModes,
   cacheControl |-> CacheControls]

MCRequests ==
  UNION {{[Default EXCEPT ![f] = v, ![g] = w] : v \in Values[f], w \in Values[g]} :
           f \in DOMAIN Values, g \in DOMAIN Values} \cup {Default}

Spec1(type, name, duration, percent, seed) ==
  [type |-> type, name |-> name, duration |-> duration, readPercent |-> percent, seed |-> seed]
File(specs) == [decodes |-> TRUE, version |-> CurrentVersion, workloads |-> specs]

Simple(type) == Spec1(type, << >>, << >>, << >>, << >>)

MCSuiteFiles ==
  {File(<<Simple(type)>>) : type \in {"sequential", "fsync-write", "unknown"}} \cup
  {File(<<Spec1("random", << >>, d, p, << >>)>>) : d \in {<<Garbled>>, <<0>>, <<2>>}, p \in {<< >>, <<101>>}} \cup
  {File(<<Spec1("sequential", <<"a">>, << >>, << >>, << >>),
          Spec1("sequential-write", <<"a", "write">>, << >>, << >>, << >>)>>),
   File(<<Simple("overwrite"), Spec1("overwrite", << >>, <<2>>, << >>, << >>)>>),
   [File(<<Simple("overwrite")>>) EXCEPT !.version = 2],
   [File(<<Simple("overwrite")>>) EXCEPT !.decodes = FALSE]}

FileSystem(available, alignment, complaint) ==
  [available |-> available, alignment |-> alignment, complaint |-> complaint]

MCDisks ==
  {FileSystem(4, 2, {}), FileSystem(31, 3, {})} \cup
  {FileSystem(31, 0, complaint) : complaint \in {{}, {"block size"}, {"directory"}}}
=============================================================================
