----------------------------- MODULE MCRetriever -----------------------------
(* Constants of Retriever for TLC: a text of one part and one of two, whose second part is
   beyond the threshold of Retriever.cfg. *)
EXTENDS Retriever, TLC

CONSTANTS v1, v2

MCChunksOf == (v1 :> 1) @@ (v2 :> 2)
MCDistance == (v1 :> 1) @@ (v2 :> 2)
Symmetry == Permutations(Jobs) \cup Permutations(Tenants) \cup Permutations(Files)
=============================================================================
