---------------------------- MODULE DeliveryLife -----------------------------
(***************************************************************************)
(* What becomes of a delivery, an alert for one channel, as a reader of    *)
(* the delivery log or of the channel sees it: at least once when it says  *)
(* SENT, and at most so many requests whatever happens.  There are no      *)
(* dispatchers, claims or leases here; Notifications implements it.  One   *)
(* transaction may move many deliveries: each makes a step, or none.       *)
(***************************************************************************)
EXTENDS Naturals

CONSTANTS
    Deliveries,
    MaxAttempts   \* requests the channel may get for a delivery, per manual retry

VARIABLES
    fate,     \* of each delivery: NONE, WAITING, SENT, FAILED, CANCELLED, or GONE
              \* with its monitor
    sent,     \* requests the channel got for each
    retried   \* manual retries of each

vars == <<fate, sent, retried>>

Init ==
    /\ fate = [x \in Deliveries |-> "NONE"]
    /\ sent = [x \in Deliveries |-> 0]
    /\ retried = [x \in Deliveries |-> 0]

Becomes(x, from, to) == fate[x] \in from /\ fate'[x] = to

Create(x) ==
    Becomes(x, {"NONE"}, "WAITING") /\ sent'[x] = sent[x] /\ retried'[x] = retried[x]

\* Also of a delivery that is settled by now: who sends it may be late.
Request(x) ==
    /\ fate[x] # "NONE" /\ fate'[x] = fate[x]
    /\ sent[x] < MaxAttempts * (1 + retried[x])
    /\ sent'[x] = sent[x] + 1
    /\ retried'[x] = retried[x]

\* It was received, it is given up, or it is cancelled; what was sent is final.
Settle(x) ==
    /\ \/ Becomes(x, {"WAITING"}, "SENT") /\ sent[x] > 0
       \/ Becomes(x, {"WAITING"}, "FAILED")
       \/ Becomes(x, {"WAITING", "FAILED"}, "CANCELLED")
    /\ sent'[x] = sent[x] /\ retried'[x] = retried[x]

Retry(x) ==
    /\ Becomes(x, {"FAILED"}, "WAITING")
    /\ sent'[x] = sent[x] /\ retried'[x] = retried[x] + 1

Delete(x) == fate'[x] = "GONE" /\ sent'[x] = sent[x] /\ retried'[x] = retried[x]

Stay(x) == fate'[x] = fate[x] /\ sent'[x] = sent[x] /\ retried'[x] = retried[x]

Next ==
    \A x \in Deliveries :
        Create(x) \/ Request(x) \/ Settle(x) \/ Retry(x) \/ Delete(x) \/ Stay(x)

Spec == Init /\ [][Next]_vars
==============================================================================
