----------------------------- MODULE MCRetention -----------------------------
(* Instances of Retention. *)
EXTENDS Retention, TLC

CONSTANTS m1, x1, x2, i1, e1, e2
==============================================================================
