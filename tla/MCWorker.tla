------------------------------- MODULE MCWorker -------------------------------
(* Instances of Worker. *)
EXTENDS Worker, TLC

CONSTANTS c1, c2, c3

Symmetric == Permutations(Claims)
===============================================================================
