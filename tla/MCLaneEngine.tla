---------------------------- MODULE MCLaneEngine ----------------------------
(***************************************************************************)
(* The plan a random workload may get for five bytes in blocks of two      *)
(* bytes, shared by two workers with two lanes each: worker 0 owns two     *)
(* blocks, worker 1 only the short last one, so its second lane is empty   *)
(* and never starts.                                                       *)
(***************************************************************************)
EXTENDS LaneEngine

config == [Size |-> 5, BlockSize |-> 2, Workers |-> 2, QueueDepth |-> 2, RandomReadPercent |-> 50]

MCPlans ==
  [worker \in 0..1 |->
     IF worker = 0
     THEN <<blockOperation(config, 1, FALSE), blockOperation(config, 0, TRUE)>>
     ELSE <<blockOperation(config, 2, FALSE)>>]
=============================================================================
