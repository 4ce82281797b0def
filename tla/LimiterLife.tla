------------------------------ MODULE LimiterLife ------------------------------
(***************************************************************************)
(* What the limits on attempts promise (docs/API.md, "Limits"): a request  *)
(* is counted at most once under each of its keys, in the same instant in  *)
(* which it is answered; it is let in only while none of its keys has been *)
(* tried more often than its maximum; and a count starts again only when   *)
(* its window is over.  There are no connections, locks or retries here.   *)
(***************************************************************************)
EXTENDS Naturals

CONSTANTS Requests, Keys, KeysOf, Maximum, Window

VARIABLES count,     \* attempts in the present window of each key
          left,      \* what is left of that window
          outcome    \* what became of each request

vars == <<count, left, outcome>>

Init ==
    /\ count = [k \in Keys |-> 0]
    /\ left = [k \in Keys |-> 0]
    /\ outcome = [r \in Requests |-> "none"]

Ask(r) ==
    /\ outcome[r] # "asking"
    /\ outcome' = [outcome EXCEPT ![r] = "asking"]
    /\ UNCHANGED <<count, left>>

\* One more attempt under a key.  The window may have ended after the attempt
\* was counted and before the request was answered.
CountedOnce(k) ==
    \/ /\ count'[k] = IF count[k] > Maximum[k] THEN count[k] ELSE count[k] + 1
       /\ left'[k] = left[k]
    \/ /\ left[k] = 0
       /\ count'[k] = 1
       /\ left'[k] \in 0 .. Window

Answer(r, answer) ==
    /\ outcome[r] = "asking"
    /\ \A k \in Keys : IF k \in KeysOf[r] THEN CountedOnce(k)
                       ELSE count'[k] = count[k] /\ left'[k] = left[k]
    /\ answer = "in" <=> \A k \in KeysOf[r] : count'[k] <= Maximum[k]
    /\ outcome' = [outcome EXCEPT ![r] = answer]

\* The request was counted, and whoever asked is told of a failure.
CountedInVain(r) ==
    /\ outcome[r] = "asking"
    /\ \A k \in Keys : IF k \in KeysOf[r] THEN CountedOnce(k)
                       ELSE count'[k] = count[k] /\ left'[k] = left[k]
    /\ outcome' = [outcome EXCEPT ![r] = "failed"]

Fail(r) ==
    /\ outcome[r] = "asking"
    /\ outcome' = [outcome EXCEPT ![r] = "failed"]
    /\ UNCHANGED <<count, left>>

Tick ==
    /\ left' = [k \in Keys |-> IF left[k] = 0 THEN 0 ELSE left[k] - 1]
    /\ UNCHANGED <<count, outcome>>

Forget ==
    /\ \A k \in Keys : count'[k] = count[k] \/ (left[k] = 0 /\ count'[k] = 0)
    /\ UNCHANGED <<left, outcome>>

Next ==
    \/ \E r \in Requests :
        \/ Ask(r)
        \/ Answer(r, "in")
        \/ Answer(r, "refused")
        \/ CountedInVain(r)
        \/ Fail(r)
    \/ Tick
    \/ Forget

Spec == Init /\ [][Next]_vars
================================================================================
