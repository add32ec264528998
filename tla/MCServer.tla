------------------------------- MODULE MCServer -------------------------------
(* Server with the deadlines of main. *)
EXTENDS Server, TLC

RequestSymmetry == Permutations(Requests)
=============================================================================
