------------------------------- MODULE MCClient -------------------------------
(* Instances of Client. *)
EXTENDS Client, TLC

CONSTANTS t1, s1, s2, ada, vic

Owners == s1 :> ada @@ s2 :> vic
===============================================================================
