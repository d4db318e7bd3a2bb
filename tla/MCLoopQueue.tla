---------------------------- MODULE MCLoopQueue ----------------------------
(* Constants for model checking LoopQueue. *)
EXTENDS LoopQueue, TLC

Symmetry == Permutations(Worker)
=============================================================================
