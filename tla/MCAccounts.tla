------------------------------ MODULE MCAccounts ------------------------------
(* Instances of Accounts. *)
EXTENDS Accounts, TLC

CONSTANTS u1, u2, pw1, pw2, p1, p2, q1, q2, s1, s2, s3

Symmetric ==
    Permutations(Requests) \cup Permutations(SessionIds) \cup Permutations(Passwords)
      \cup Permutations(Processes) \cup Permutations(Users)
==============================================================================
