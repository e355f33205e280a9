------------------------------ MODULE MCService ------------------------------
(* Calls are interchangeable for the safety properties. *)
EXTENDS Service, TLC

CallSymmetry == Permutations(Starts) \cup Permutations(Cancels)
=============================================================================
