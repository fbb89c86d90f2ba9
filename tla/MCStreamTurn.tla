---------------------------- MODULE MCStreamTurn ----------------------------
(* Constants of StreamTurn for TLC. *)
EXTENDS StreamTurn, TLC

Symmetry == Permutations(Requests) \cup Permutations(Instances) \cup Permutations(Answers)
=============================================================================
