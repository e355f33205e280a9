------------------------------ MODULE MCRunner ------------------------------
(* Selections in which workloads that populate the file come first and      *)
(* after one that has truncated it or not, and workloads that truncate it   *)
(* come first and after one that does not.                                  *)
EXTENDS Runner

MCSuites ==
  {<<"write", "read">>, <<"mixed", "overwrite">>, <<"read", "fsync", "mixed">>, <<"fsync">>}
=============================================================================
