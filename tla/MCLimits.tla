------------------------------- MODULE MCLimits -------------------------------
(* Three logins of one person from one address: two share the only connection *)
(* of one process, the third comes through another process.                   *)
EXTENDS Limits, TLC

CONSTANTS r1, r2, r3, p1, p2, ip, mail

Process == r1 :> p1 @@ r2 :> p1 @@ r3 :> p2
SameKeys == [r \in Requests |-> <<ip, mail>>]
Maxima == ip :> 2 @@ mail :> 1
===============================================================================
