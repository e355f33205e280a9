-------------------------- MODULE MCOperationPlan --------------------------
(***************************************************************************)
(* Files of up to seven bytes in blocks of one to three bytes, so that the *)
(* last block is full, short or the only one, with more and with fewer     *)
(* workers and lanes than blocks.  A random plan has at most four blocks.  *)
(***************************************************************************)
EXTENDS OperationPlan

MCConfigs ==
  {c \in [Size : 1..7, BlockSize : 1..3, Workers : 1..4, QueueDepth : 1..3,
          RandomReadPercent : {0, 30, 50, 100}] : c.BlockSize <= c.Size}

MCInputs ==
  {[kind |-> kind, config |-> c] : kind \in Kinds \ {"random"},
                                   c \in {d \in MCConfigs : d.RandomReadPercent = 0}}
  \cup
  {[kind |-> "random", config |-> c] :
     c \in {d \in MCConfigs : d.QueueDepth = 2 /\ d.Workers < 4 /\ blockCount(d) <= 4}}
=============================================================================
