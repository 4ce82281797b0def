------------------------- MODULE NotificationsProofs --------------------------
(***************************************************************************)
(* Safety of Notifications, and its refinement of DeliveryLife, for every  *)
(* number of monitors, jobs, rules, channels, dispatchers and tokens, and  *)
(* every limit on batches, attempts and retries.                           *)
(***************************************************************************)
EXTENDS Notifications, FiniteSetTheorems, TLAPS

Row(j, c) == deliveries[<<j, c>>]

\* What is enabled is there.
Configured ==
    /\ \A c \in Channels : channels[c].enabled => Created(c)
    /\ \A r \in Rules : rules[r].enabled => rules[r].status = "PRESENT"

\* What a job has to do with its monitor, and with its deliveries.
Outbox ==
    \A j \in Jobs :
        /\ jobs[j].status = "NONE" => jobs[j].monitor = None
        /\ jobs[j].status = "DELETED" => jobs[j].monitor \in deleted
        /\ \A c \in Channels :
               /\ jobs[j].status \in {"NONE", "PENDING", "DELETED"} => Row(j, c).status = "NONE"
               /\ jobs[j].status = "CANCELLED" => Row(j, c).status \in {"NONE", "SENT", "CANCELLED"}
               /\ Row(j, c).status = "NONE" => Row(j, c).attempts = 0

\* Each job is routed by one dispatcher at a time, and nobody else touches it.
Locks ==
    \A d \in Dispatchers :
        /\ dispatchers[d].jobs # {} => dispatchers[d].pc \in {"RULES", "CHANNELS", "INSERT"}
        /\ \A j \in dispatchers[d].jobs : jobs[j].status = "PENDING"
        /\ \A e \in Dispatchers : e # d => dispatchers[d].jobs \cap dispatchers[e].jobs = {}

SendingPoints == {"CHECK", "CANCEL", "DELIVER", "FINISH"}

\* A claim is of a delivery that is or was there; the row that has its token is that one,
\* in the attempt that was claimed; and who is to report success has sent.
Leased(d) ==
    LET claim == dispatchers[d].claim
        x     == claim.delivery
    IN  IF dispatchers[d].pc \in SendingPoints
        THEN /\ x \in Deliveries /\ claim.token \in Tokens
             /\ deliveries[x].status # "NONE" \/ jobs[x[1]].status = "DELETED"
             /\ \A y \in Deliveries :
                    deliveries[y].token = claim.token =>
                        y = x /\ deliveries[y].attempts = claim.attempts
             /\ dispatchers[d].pc = "FINISH" /\ ~claim.failed => history[x].sent > 0
        ELSE claim = NoClaim

Leases ==
    /\ \A d \in Dispatchers : Leased(d)
    /\ \A x \in Deliveries : deliveries[x].token # None => deliveries[x].status = "PROCESSING"

\* The dispatchers that may still make the request they claimed.
Pending(x) ==
    {d \in Dispatchers : dispatchers[d].pc \in {"CHECK", "DELIVER"} /\ dispatchers[d].claim.delivery = x}

\* Attempts that were granted since the last retry.
Granted(x) == IF jobs[x[1]].status = "DELETED" THEN MaxAttempts ELSE deliveries[x].attempts

\* Every request, made or still to be made, was counted as an attempt before.
Counted ==
    \A x \in Deliveries :
        /\ IsFiniteSet(Pending(x))
        /\ history[x].sent + Cardinality(Pending(x)) <= MaxAttempts * history[x].retried + Granted(x)

\* Rule r is there, for the monitor, channel and time of the job.
Covers(r, j, c) ==
    /\ rules[r].status = "PRESENT" /\ c \in rules[r].channels
    /\ rules[r].created <= jobs[j].created
    /\ InScope(rules[r], jobs[j].monitor)

\* What a dispatcher has read of rules and channels is still so, for the jobs it routes.
Snapshots ==
    \A d \in Dispatchers :
        /\ \A c \in dispatchers[d].channels : Created(c)
        /\ \A j \in dispatchers[d].jobs, c \in Channels :
               \A rule \in dispatchers[d].rules :
                   Asks(rule, jobs[j]) /\ c \in rule.channels => \E r \in Rules : Covers(r, j, c)

\* Every delivery has a channel and a rule that are older than its event.
Grounded ==
    \A j \in Jobs, c \in Channels :
        Row(j, c).status # "NONE" =>
            /\ Created(c) /\ channels[c].created <= jobs[j].created
            /\ \E r \in Rules : Covers(r, j, c)

Inv ==
    TypeOK /\ Configured /\ Outbox /\ Locks /\ Leases /\ Counted /\ Snapshots /\ Grounded

-----------------------------------------------------------------------------
(***************************** what rows do ********************************)

JobKept(j) == jobs'[j].status = jobs[j].status

JobWithdrawn(j) == jobs[j].status \notin {"NONE", "DELETED"} /\ jobs'[j].status = "CANCELLED"

Kept(x) ==
    /\ deliveries'[x].status = deliveries[x].status
    /\ deliveries'[x].attempts = deliveries[x].attempts
    /\ deliveries'[x].token = deliveries[x].token
    /\ \/ JobKept(x[1])
       \/ jobs[x[1]].status = "NONE" /\ jobs'[x[1]].status = "PENDING"
       \/ jobs[x[1]].status = "PENDING" /\ jobs'[x[1]].status \in {"ROUTED", "IGNORED"}
       \/ JobWithdrawn(x[1]) /\ deliveries[x].status \in {"NONE", "SENT", "CANCELLED"}

Made(x) ==
    /\ jobs[x[1]].status = "PENDING" /\ jobs'[x[1]].status = "ROUTED"
    /\ deliveries'[x].status = "PENDING"
    /\ deliveries'[x].attempts = 0 /\ deliveries'[x].token = None
    /\ UNCHANGED <<rules, channels>>
    /\ \E d \in Dispatchers : x[1] \in dispatchers[d].jobs /\ x[2] \in Targets(d, x[1])

Claimed(x) ==
    /\ Unsettled(x) /\ JobKept(x[1]) /\ deliveries[x].attempts < MaxAttempts
    /\ deliveries'[x].status = "PROCESSING"
    /\ deliveries'[x].attempts = deliveries[x].attempts + 1
    /\ deliveries'[x].token \in FreshTokens

Settled(x) ==
    /\ Unsettled(x)
    /\ deliveries'[x].attempts = deliveries[x].attempts /\ deliveries'[x].token = None
    /\ \/ deliveries'[x].status = "CANCELLED" /\ (JobKept(x[1]) \/ JobWithdrawn(x[1]))
       \/ deliveries'[x].status = "SENT" /\ JobKept(x[1]) /\ history[x].sent > 0
       \/ /\ deliveries'[x].status = "FAILED" /\ JobKept(x[1])
          /\ deliveries[x].attempts = MaxAttempts
       \/ /\ deliveries'[x].status = "PENDING" /\ JobKept(x[1])
          /\ deliveries[x].attempts < MaxAttempts

Withdrawn(x) ==
    /\ deliveries[x].status = "FAILED" /\ deliveries'[x].status = "CANCELLED"
    /\ deliveries'[x].attempts = deliveries[x].attempts /\ deliveries'[x].token = None
    /\ JobWithdrawn(x[1])

Retried(x) ==
    /\ deliveries[x].status = "FAILED" /\ JobKept(x[1]) /\ deliveries'[x].status = "PENDING"
    /\ deliveries'[x].attempts = 0 /\ deliveries'[x].token = deliveries[x].token
    /\ history'[x].retried = history[x].retried + 1 /\ history'[x].sent = history[x].sent

Removed(x) ==
    /\ jobs'[x[1]].status = "DELETED"
    /\ deliveries'[x].status = "NONE" /\ deliveries'[x].token = None
    /\ deliveries'[x].attempts = 0

RowStep(x) ==
    \/ Kept(x) \/ Made(x) \/ Claimed(x) \/ Settled(x) \/ Withdrawn(x) \/ Retried(x) \/ Removed(x)

\* Every row is of the type, and moves as RowStep says.
RowsMove ==
    /\ deliveries' \in [Deliveries -> DeliveryType]
    /\ \A x \in Deliveries : RowStep(x)

\* Rows to which nothing happens, or their flags alone.
LEMMA RowsKept ==
    ASSUME TypeOK, jobs' = jobs,
           \/ deliveries' = deliveries
           \/ \E x \in Deliveries : Elapse(x) \/ Expire(x)
    PROVE  RowsMove
<1>1. ASSUME NEW x \in Deliveries
      PROVE  deliveries'[x] \in DeliveryType /\ Kept(x)
  <2>1. CASE deliveries' = deliveries
    BY <2>1 DEF TypeOK, Kept, JobKept
  <2>2. ASSUME NEW y \in Deliveries, Elapse(y) \/ Expire(y)
        PROVE  deliveries'[x] \in DeliveryType /\ Kept(x)
    <3>1. /\ deliveries[x] \in DeliveryType
          /\ \/ deliveries'[x] = deliveries[x]
             \/ deliveries'[x] = [deliveries[x] EXCEPT !.due = TRUE]
             \/ deliveries'[x] = [deliveries[x] EXCEPT !.live = FALSE]
      BY <2>2 DEF Elapse, Expire, TypeOK
    <3> QED
      BY <3>1 DEF Kept, JobKept, DeliveryType
  <2> QED
    BY <2>1, <2>2
<1>2. deliveries' = [x \in Deliveries |-> deliveries'[x]]
  BY DEF TypeOK, Elapse, Expire
<1> QED
  BY <1>1, <1>2 DEF RowsMove, RowStep

\* A new job has no rows: complete.
LEMMA RowsOfEnqueue ==
    ASSUME TypeOK, NEW j \in Jobs, NEW m \in Monitors, NEW type \in Types, NEW at \in 1..now,
           Enqueue(j, m, type, at)
    PROVE  RowsMove
<1>1. \A i \in Jobs : i # j => jobs'[i] = jobs[i]
  BY DEF Enqueue, TypeOK
<1>2. jobs[j].status = "NONE" /\ jobs'[j].status = "PENDING" /\ deliveries' = deliveries
  BY DEF Enqueue, TypeOK
<1>3. ASSUME NEW x \in Deliveries PROVE Kept(x)
  <2>1. x[1] \in Jobs
    BY DEF Deliveries
  <2> QED
    BY <1>1, <1>2, <2>1 DEF Kept, JobKept
<1> QED
  BY <1>2, <1>3 DEF RowsMove, RowStep, TypeOK

\* Routing makes rows where there were none: routePending.
LEMMA RowsOfRouting ==
    ASSUME TypeOK, Outbox, Locks, NEW d \in Dispatchers, CommitRouting(d)
    PROVE  RowsMove
<1> DEFINE batch == dispatchers[d].jobs
<1>1. \A j \in batch : jobs[j].status = "PENDING" /\ j \in Jobs
  BY DEF Locks, TypeOK, DispatcherType
<1>2. ASSUME NEW x \in Deliveries
      PROVE  deliveries'[x] \in DeliveryType /\ RowStep(x)
  <2>1. x[1] \in Jobs /\ x[2] \in Channels
    BY DEF Deliveries
  <2>2. jobs'[x[1]].status = IF x[1] \in batch THEN Routed(d, x[1]) ELSE jobs[x[1]].status
    BY <1>1, <2>1 DEF CommitRouting, TypeOK, JobType
  <2>3. Routed(d, x[1]) \in {"ROUTED", "IGNORED"} /\ deliveries[x] \in DeliveryType
    BY DEF Routed, TypeOK
  <2>4. CASE x[1] \in batch /\ x[2] \in Targets(d, x[1])
    <3>1. deliveries'[x] = [NoDelivery EXCEPT !.status = "PENDING", !.due = TRUE]
      BY <2>4 DEF CommitRouting
    <3>2. Routed(d, x[1]) = "ROUTED"
      BY <2>4 DEF Routed
    <3>3. Made(x)
      BY <1>1, <2>2, <2>4, <3>1, <3>2 DEF Made, NoDelivery, CommitRouting
    <3>4. deliveries'[x] \in DeliveryType
      <4>1. NoDelivery \in DeliveryType
        BY LimitsAssumption DEF NoDelivery, DeliveryType
      <4> QED
        BY <3>1, <4>1 DEF DeliveryType
    <3> QED
      BY <3>3, <3>4 DEF RowStep
  <2>5. CASE ~(x[1] \in batch /\ x[2] \in Targets(d, x[1]))
    <3>1. deliveries'[x] = deliveries[x]
      BY <2>5 DEF CommitRouting
    <3> QED
      BY <1>1, <2>2, <2>3, <3>1 DEF RowStep, Kept, JobKept
  <2> QED
    BY <2>4, <2>5
<1>3. deliveries' = [x \in Deliveries |-> deliveries'[x]]
  BY DEF CommitRouting
<1> QED
  BY <1>2, <1>3 DEF RowsMove

\* Claiming gives up what nobody will end, and counts an attempt of at most one row: claim.
LEMMA RowsOfClaim ==
    ASSUME TypeOK, NEW d \in Dispatchers, Claim(d)
    PROVE  RowsMove
<1>1. jobs' = jobs
  BY DEF Claim
<1>2. GivenUp \in [Deliveries -> DeliveryType]
  <2>1. ASSUME NEW x \in Deliveries PROVE GivenUp[x] \in DeliveryType
    <3>1. deliveries[x] \in DeliveryType
      BY DEF TypeOK
    <3> QED
      BY <3>1 DEF GivenUp, DeliveryType
  <2> QED
    BY <2>1 DEF GivenUp
<1>3. ASSUME NEW x \in Deliveries, deliveries'[x] = GivenUp[x] PROVE Kept(x) \/ Settled(x)
  <2>1. CASE Exhausted(x)
    <3>1. /\ deliveries'[x] = [deliveries[x] EXCEPT !.status = "FAILED", !.token = None]
          /\ deliveries[x] \in DeliveryType
      BY <1>3, <2>1 DEF GivenUp, TypeOK
    <3>2. deliveries[x].attempts = MaxAttempts /\ deliveries[x].status = "PROCESSING"
      BY <2>1, <3>1, LimitsAssumption DEF Exhausted, DeliveryType
    <3> QED
      BY <1>1, <3>1, <3>2 DEF Settled, Unsettled, JobKept, DeliveryType
  <2>2. CASE ~Exhausted(x)
    BY <1>1, <1>3, <2>2 DEF GivenUp, Kept, JobKept
  <2> QED
    BY <2>1, <2>2
<1>4. CASE deliveries' = GivenUp
  BY <1>2, <1>3, <1>4 DEF RowsMove, RowStep
<1>5. ASSUME NEW y \in Deliveries, Claimable(y), FreshTokens # {},
             deliveries' = [GivenUp EXCEPT ![y].status = "PROCESSING", ![y].attempts = @ + 1,
                                           ![y].token = NewToken, ![y].live = TRUE]
      PROVE  RowsMove
  <2>1. NewToken \in FreshTokens /\ NewToken \in Tokens
    BY <1>5 DEF NewToken, FreshTokens
  <2>2. /\ deliveries[y] \in DeliveryType /\ deliveries[y].attempts < MaxAttempts
        /\ deliveries[y].status \in {"PENDING", "PROCESSING"}
        /\ GivenUp[y] = deliveries[y]
    <3>1. /\ deliveries[y] \in DeliveryType /\ deliveries[y].attempts < MaxAttempts
          /\ deliveries[y].status \in {"PENDING", "PROCESSING"}
      BY <1>5 DEF Claimable, TypeOK
    <3>2. ~Exhausted(y)
      BY <3>1, LimitsAssumption DEF Exhausted, DeliveryType
    <3> QED
      BY <3>1, <3>2 DEF GivenUp
  <2>3. deliveries'[y] = [deliveries[y] EXCEPT !.status = "PROCESSING",
            !.attempts = deliveries[y].attempts + 1, !.token = NewToken, !.live = TRUE]
    BY <1>2, <1>5, <2>2
  <2>4. deliveries[y].attempts + 1 \in 0..MaxAttempts
    BY <2>2, LimitsAssumption DEF DeliveryType
  <2>5. deliveries'[y] \in DeliveryType
    BY <2>1, <2>2, <2>3, <2>4 DEF DeliveryType
  <2>6. Claimed(y)
    BY <1>1, <2>1, <2>2, <2>3 DEF Claimed, Unsettled, JobKept, DeliveryType
  <2>7. ASSUME NEW x \in Deliveries, x # y PROVE deliveries'[x] = GivenUp[x]
    BY <1>2, <1>5, <2>7
  <2>8. deliveries' = [x \in Deliveries |-> deliveries'[x]]
    BY <1>2, <1>5
  <2>9. \A x \in Deliveries : deliveries'[x] \in DeliveryType /\ RowStep(x)
    BY <1>2, <1>3, <2>5, <2>6, <2>7 DEF RowStep
  <2> QED
    BY <2>8, <2>9 DEF RowsMove
<1> QED
  BY <1>4, <1>5 DEF Claim

\* One row that is settled, and no job that moves.
LEMMA OneRowSettled ==
    ASSUME TypeOK, jobs' = jobs, NEW x \in Deliveries, NEW status, NEW row \in DeliveryType,
           deliveries' = [deliveries EXCEPT ![x] = row], row.status = status,
           row.attempts = deliveries[x].attempts, row.token = None, Unsettled(x),
           \/ status = "CANCELLED"
           \/ status = "SENT" /\ history[x].sent > 0
           \/ status = "FAILED" /\ deliveries[x].attempts = MaxAttempts
           \/ status = "PENDING" /\ deliveries[x].attempts < MaxAttempts
    PROVE  RowsMove
<1>1. deliveries'[x] = row /\ deliveries' \in [Deliveries -> DeliveryType]
  BY DEF TypeOK
<1>2. Settled(x)
  BY <1>1 DEF Settled, JobKept
<1>3. ASSUME NEW y \in Deliveries, y # x PROVE Kept(y)
  <2>1. deliveries'[y] = deliveries[y]
    BY <1>3 DEF TypeOK
  <2> QED
    BY <2>1 DEF Kept, JobKept
<1> QED
  BY <1>1, <1>2, <1>3 DEF RowsMove, RowStep

\* Who holds the lease cancels or ends the delivery in the attempt it claimed: send, finish.
LEMMA RowsOfSending ==
    ASSUME TypeOK, Leases, NEW d \in Dispatchers, CancelClaimed(d) \/ Finish(d)
    PROVE  RowsMove
<1> DEFINE claim == dispatchers[d].claim
           x == claim.delivery
<1>1. /\ jobs' = jobs /\ x \in Deliveries /\ claim.token \in Tokens
      /\ deliveries[x].token = claim.token => deliveries[x].attempts = claim.attempts
      /\ dispatchers[d].pc = "FINISH" /\ ~claim.failed => history[x].sent > 0
      /\ deliveries[x].token # None => deliveries[x].status = "PROCESSING"
      /\ deliveries[x] \in DeliveryType
  BY DEF CancelClaimed, Finish, Leases, Leased, SendingPoints, TypeOK
<1>2. claim.attempts \in 0..MaxAttempts /\ claim.token # None
  BY <1>1, IdsAssumption DEF TypeOK, DispatcherType, ClaimType
<1>3. CASE deliveries' = deliveries
  BY <1>1, <1>3, RowsKept
<1>4. CASE CancelClaimed(d) /\ Ours(claim)
  <2> DEFINE row == [deliveries[x] EXCEPT !.status = "CANCELLED", !.token = None, !.live = FALSE]
  <2>1. deliveries' = [deliveries EXCEPT ![x] = row]
    BY <1>1, <1>4 DEF CancelClaimed, TypeOK
  <2>2. /\ row \in DeliveryType /\ row.status = "CANCELLED" /\ row.token = None
        /\ row.attempts = deliveries[x].attempts
    BY <1>1 DEF DeliveryType
  <2>3. Unsettled(x)
    BY <1>1, <1>2, <1>4 DEF Ours, Unsettled
  <2> HIDE DEF row, x
  <2> QED
    BY <1>1, <2>1, <2>2, <2>3, OneRowSettled
<1>5. CASE Finish(d) /\ Owned(claim)
  <2> DEFINE status == Verdict(claim)
             row == [deliveries[x] EXCEPT !.status = status, !.due = FALSE,
                                          !.token = None, !.live = FALSE]
  <2>1. deliveries' = [deliveries EXCEPT ![x] = row]
    BY <1>1, <1>5 DEF Finish, TypeOK
  <2>2. Unsettled(x) /\ deliveries[x].attempts = claim.attempts
    BY <1>1, <1>5 DEF Owned, Unsettled
  <2>3. \/ status = "SENT" /\ history[x].sent > 0
        \/ status = "FAILED" /\ deliveries[x].attempts = MaxAttempts
        \/ status = "PENDING" /\ deliveries[x].attempts < MaxAttempts
    <3>1. CASE ~claim.failed
      BY <1>1, <1>5, <3>1 DEF Verdict, Finish
    <3>2. CASE claim.failed /\ claim.attempts >= MaxAttempts
      BY <1>2, <2>2, <3>2, LimitsAssumption DEF Verdict
    <3>3. CASE claim.failed /\ ~(claim.attempts >= MaxAttempts)
      BY <1>2, <2>2, <3>3, LimitsAssumption DEF Verdict
    <3> QED
      BY <3>1, <3>2, <3>3
  <2> HIDE DEF status
  <2>4. /\ row \in DeliveryType /\ row.status = status /\ row.token = None
        /\ row.attempts = deliveries[x].attempts
    BY <1>1, <2>3 DEF DeliveryType
  <2> HIDE DEF row, x
  <2> QED
    BY <1>1, <2>1, <2>2, <2>3, <2>4, OneRowSettled
<1> QED
  BY <1>3, <1>4, <1>5 DEF CancelClaimed, Finish

\* A row that is cancelled from outside forgets its claim.
LEMMA RowCancelled ==
    ASSUME NEW row \in DeliveryType
    PROVE  /\ Cancelled(row) \in DeliveryType /\ Cancelled(row).status = "CANCELLED"
           /\ Cancelled(row).token = None /\ Cancelled(row).attempts = row.attempts
BY DEF Cancelled, DeliveryType

\* Operators cancel what is not over, and retry what was given up: setEnabled, retry.
LEMMA RowsOfOperators ==
    ASSUME TypeOK,
           \/ \E c \in Channels, enabled \in BOOLEAN : SetChannelEnabled(c, enabled)
           \/ \E x \in Deliveries : Retry(x)
    PROVE  RowsMove
<1>1. ASSUME NEW c \in Channels, NEW enabled \in BOOLEAN, SetChannelEnabled(c, enabled)
      PROVE  RowsMove
  <2>1. ASSUME NEW x \in Deliveries PROVE deliveries'[x] \in DeliveryType /\ RowStep(x)
    <3>1. deliveries[x] \in DeliveryType /\ jobs' = jobs
      BY <1>1 DEF TypeOK, SetChannelEnabled
    <3>2. CASE deliveries'[x] = deliveries[x]
      BY <3>1, <3>2 DEF RowStep, Kept, JobKept
    <3>3. CASE deliveries'[x] = Cancelled(deliveries[x]) /\ Unsettled(x)
      BY <3>1, <3>3, RowCancelled DEF RowStep, Settled, JobKept
    <3> QED
      BY <1>1, <3>2, <3>3 DEF SetChannelEnabled, Unsettled
  <2>2. deliveries' = [x \in Deliveries |-> deliveries'[x]]
    BY <1>1 DEF SetChannelEnabled
  <2> QED
    BY <2>1, <2>2 DEF RowsMove
<1>2. ASSUME NEW x \in Deliveries, Retry(x) PROVE RowsMove
  <2>1. /\ jobs' = jobs /\ deliveries[x] \in DeliveryType /\ deliveries[x].status = "FAILED"
        /\ deliveries'[x] = [deliveries[x] EXCEPT !.status = "PENDING", !.attempts = 0, !.due = TRUE]
        /\ deliveries' = [y \in Deliveries |-> IF y = x THEN deliveries'[x] ELSE deliveries[y]]
    BY <1>2 DEF Retry, TypeOK
  <2>2. deliveries'[x] \in DeliveryType /\ Retried(x)
    <3> DEFINE row == [deliveries[x] EXCEPT !.status = "PENDING", !.attempts = 0, !.due = TRUE]
    <3>0. 0 \in 0..MaxAttempts
      BY LimitsAssumption
    <3>1. row \in DeliveryType
      BY <2>1, <3>0 DEF DeliveryType
    <3>2. row.status = "PENDING" /\ row.attempts = 0 /\ row.token = deliveries[x].token
      BY <2>1 DEF DeliveryType
    <3>3. history'[x].retried = history[x].retried + 1 /\ history'[x].sent = history[x].sent
      <4>1. history[x] \in [sent : Nat, retried : Nat]
        BY DEF TypeOK
      <4>2. history'[x] = [history[x] EXCEPT !.retried = history[x].retried + 1]
        BY <1>2 DEF Retry, TypeOK
      <4> QED
        BY <4>1, <4>2
    <3> HIDE DEF row
    <3>4. deliveries'[x] = row
      BY <2>1 DEF row
    <3> QED
      BY <2>1, <3>1, <3>2, <3>3, <3>4 DEF Retried, JobKept
  <2>3. \A y \in Deliveries : y # x => deliveries'[y] = deliveries[y]
    BY <2>1
  <2>4. \A y \in Deliveries : y # x => Kept(y)
    BY <2>1, <2>3 DEF Kept, JobKept
  <2>5. deliveries' \in [Deliveries -> DeliveryType]
    BY <2>1, <2>2 DEF TypeOK
  <2> QED
    BY <2>2, <2>4, <2>5 DEF RowsMove, RowStep
<1> QED
  BY <1>1, <1>2

\* A changed question cancels what is not over of its monitor, and a deleted monitor takes
\* its rows with it: updateMonitor, deleteMonitor.
LEMMA RowsOfMonitors ==
    ASSUME TypeOK, Outbox, NEW m \in Monitors, Withdraw(m) \/ DeleteMonitor(m)
    PROVE  RowsMove
<1> DEFINE Of(x) == x[1] \in OfMonitor(m)
<1>1. \A x \in Deliveries : /\ x[1] \in Jobs /\ deliveries[x] \in DeliveryType
                            /\ jobs[x[1]] \in JobType
  BY DEF Deliveries, TypeOK
<1>2. \A x \in Deliveries : Of(x) => jobs[x[1]].status \notin {"NONE", "DELETED"}
  <2>1. m \notin deleted /\ m # None
    BY IdsAssumption DEF Withdraw, DeleteMonitor, Unrouted
  <2> QED
    BY <1>1, <2>1 DEF OfMonitor, Outbox
<1>3. CASE Withdraw(m)
  <2>1. ASSUME NEW x \in Deliveries PROVE deliveries'[x] \in DeliveryType /\ RowStep(x)
    <3>1. CASE Of(x)
      <4>1. jobs'[x[1]] = [jobs[x[1]] EXCEPT !.status = "CANCELLED"]
        BY <1>1, <1>3, <3>1 DEF Withdraw
      <4>2. JobWithdrawn(x[1])
        BY <1>1, <1>2, <3>1, <4>1 DEF JobWithdrawn, JobType
      <4>3. CASE deliveries[x].status \in {"PENDING", "PROCESSING", "FAILED"}
        <5>1. deliveries'[x] = Cancelled(deliveries[x])
          BY <1>3, <3>1, <4>3 DEF Withdraw
        <5> QED
          BY <1>1, <4>2, <4>3, <5>1, RowCancelled DEF RowStep, Settled, Withdrawn, Unsettled
      <4>4. CASE deliveries[x].status \notin {"PENDING", "PROCESSING", "FAILED"}
        <5>1. deliveries'[x] = deliveries[x]
          BY <1>3, <4>4 DEF Withdraw
        <5>2. deliveries[x].status \in {"NONE", "SENT", "CANCELLED"}
          BY <1>1, <4>4 DEF DeliveryType
        <5> QED
          BY <1>1, <4>2, <5>1, <5>2 DEF RowStep, Kept
      <4> QED
        BY <4>3, <4>4
    <3>2. CASE ~Of(x)
      <4>1. jobs'[x[1]] = jobs[x[1]] /\ deliveries'[x] = deliveries[x]
        BY <1>1, <1>3, <3>2 DEF Withdraw
      <4> QED
        BY <1>1, <4>1 DEF RowStep, Kept, JobKept
    <3> QED
      BY <3>1, <3>2
  <2>2. deliveries' = [x \in Deliveries |-> deliveries'[x]]
    BY <1>3 DEF Withdraw
  <2> QED
    BY <2>1, <2>2 DEF RowsMove
<1>4. CASE DeleteMonitor(m)
  <2>1. ASSUME NEW x \in Deliveries PROVE deliveries'[x] \in DeliveryType /\ RowStep(x)
    <3>1. CASE Of(x)
      <4>1. /\ jobs'[x[1]] = [jobs[x[1]] EXCEPT !.status = "DELETED"]
            /\ deliveries'[x] = NoDelivery
        BY <1>1, <1>4, <3>1 DEF DeleteMonitor
      <4>2. NoDelivery \in DeliveryType /\ NoDelivery.status = "NONE" /\ NoDelivery.token = None
            /\ NoDelivery.attempts = 0
        BY LimitsAssumption DEF NoDelivery, DeliveryType
      <4>3. jobs'[x[1]].status = "DELETED"
        BY <1>1, <4>1 DEF JobType
      <4> QED
        BY <4>1, <4>2, <4>3 DEF RowStep, Removed
    <3>2. CASE ~Of(x)
      <4>1. jobs'[x[1]] = jobs[x[1]] /\ deliveries'[x] = deliveries[x]
        BY <1>1, <1>4, <3>2 DEF DeleteMonitor
      <4> QED
        BY <1>1, <4>1 DEF RowStep, Kept, JobKept
    <3> QED
      BY <3>1, <3>2
  <2>2. deliveries' = [x \in Deliveries |-> deliveries'[x]]
    BY <1>4 DEF DeleteMonitor
  <2> QED
    BY <2>1, <2>2 DEF RowsMove
<1> QED
  BY <1>3, <1>4

\* Every step moves every row in one of these ways.
LEMMA RowsStep ==
    ASSUME TypeOK, Outbox, Locks, Leases, [Next]_vars
    PROVE  RowsMove
<1>1. ASSUME NEW j \in Jobs, NEW m \in Monitors, NEW type \in Types, NEW at \in 1..now,
             Enqueue(j, m, type, at)
      PROVE  RowsMove
  BY <1>1, RowsOfEnqueue
<1>2. ASSUME NEW d \in Dispatchers,
             \/ LockJobs(d) \/ NothingToRoute(d) \/ Routing(d)
             \/ Claim(d) \/ Sending(d) \/ FailToDeliver(d) \/ Abort(d)
      PROVE  RowsMove
  <2>1. CASE \/ LockJobs(d) \/ NothingToRoute(d) \/ ReadRules(d) \/ ReadChannels(d)
             \/ CheckChannel(d) \/ Deliver(d) \/ FailToDeliver(d) \/ Abort(d)
    <3>1. jobs' = jobs /\ deliveries' = deliveries
      BY <2>1 DEF LockJobs, NothingToRoute, ReadRules, ReadChannels, CheckChannel, Deliver,
                  FailToDeliver, Abort
    <3> QED
      BY <3>1, RowsKept
  <2>2. CASE CommitRouting(d)
    BY <2>2, RowsOfRouting
  <2>3. CASE Claim(d)
    BY <2>3, RowsOfClaim
  <2>4. CASE CancelClaimed(d) \/ Finish(d)
    BY <2>4, RowsOfSending
  <2> QED
    BY <1>2, <2>1, <2>2, <2>3, <2>4 DEF Routing, Sending
<1>3. CASE Operating
  <2>1. CASE \/ \E c \in Channels : CreateChannel(c)
             \/ \E r \in Rules, config \in RuleConfigs : CreateRule(r, config)
             \/ \E r \in Rules, enabled \in BOOLEAN : SetRuleEnabled(r, enabled)
    <3>1. jobs' = jobs /\ deliveries' = deliveries
      BY <2>1 DEF CreateChannel, CreateRule, SetRuleEnabled
    <3> QED
      BY <3>1, RowsKept
  <2>2. CASE \/ \E c \in Channels, enabled \in BOOLEAN : SetChannelEnabled(c, enabled)
             \/ \E x \in Deliveries : Retry(x)
    BY <2>2, RowsOfOperators
  <2>3. CASE \E m \in Monitors : Withdraw(m) \/ DeleteMonitor(m)
    BY <2>3, RowsOfMonitors
  <2> QED
    BY <1>3, <2>1, <2>2, <2>3 DEF Operating
<1>4. CASE Passing
  <2>1. jobs' = jobs /\ (deliveries' = deliveries \/ \E x \in Deliveries : Elapse(x) \/ Expire(x))
    BY <1>4 DEF Passing, Tick, Elapse, Expire
  <2> QED
    BY <2>1, RowsKept
<1>5. CASE UNCHANGED vars
  BY <1>5, RowsKept DEF vars
<1> QED
  BY <1>1, <1>2, <1>3, <1>4, <1>5 DEF Next

-----------------------------------------------------------------------------
(******************************* the types *********************************)

\* Jobs stay in their type.
LEMMA JobsTyped ==
    ASSUME TypeOK, [Next]_vars
    PROVE  jobs' \in [Jobs -> JobType]
<1>1. CASE jobs' = jobs
  BY <1>1 DEF TypeOK
<1>2. ASSUME NEW j \in Jobs, NEW m \in Monitors, NEW type \in Types, NEW at \in 1..now,
             Enqueue(j, m, type, at)
      PROVE  jobs' \in [Jobs -> JobType]
  <2> DEFINE job == [status |-> "PENDING", monitor |-> m, type |-> type, created |-> at]
  <2>1. at \in 0..MaxTime
    BY LimitsAssumption DEF TypeOK
  <2>2. job \in JobType
    BY <2>1 DEF JobType
  <2> HIDE DEF job
  <2>3. jobs' = [jobs EXCEPT ![j] = job]
    BY <1>2 DEF Enqueue, job
  <2> QED
    BY <2>2, <2>3 DEF TypeOK
<1>3. ASSUME NEW status \in [Jobs -> {"ROUTED", "IGNORED", "CANCELLED", "DELETED"}],
             NEW batch \in SUBSET Jobs,
             jobs' = [j \in Jobs |-> IF j \in batch
                                     THEN [jobs[j] EXCEPT !.status = status[j]] ELSE jobs[j]]
      PROVE  jobs' \in [Jobs -> JobType]
  <2>1. ASSUME NEW j \in Jobs PROVE jobs'[j] \in JobType
    <3>1. jobs[j] \in JobType
      BY DEF TypeOK
    <3> QED
      BY <1>3, <3>1 DEF JobType
  <2> QED
    BY <1>3, <2>1
<1>4. ASSUME NEW d \in Dispatchers, CommitRouting(d) PROVE jobs' \in [Jobs -> JobType]
  <2> DEFINE status == [j \in Jobs |-> Routed(d, j)]
             batch == dispatchers[d].jobs
  <2>1. status \in [Jobs -> {"ROUTED", "IGNORED", "CANCELLED", "DELETED"}]
    BY DEF Routed
  <2>2. batch \in SUBSET Jobs
    BY DEF TypeOK, DispatcherType
  <2>3. jobs' = [j \in Jobs |-> IF j \in batch
                                THEN [jobs[j] EXCEPT !.status = status[j]] ELSE jobs[j]]
    BY <1>4 DEF CommitRouting
  <2> HIDE DEF status, batch
  <2> QED
    BY <1>3, <2>1, <2>2, <2>3
<1>5. ASSUME NEW m \in Monitors, Withdraw(m) \/ DeleteMonitor(m)
      PROVE  jobs' \in [Jobs -> JobType]
  <2>1. ASSUME NEW s \in {"CANCELLED", "DELETED"},
               jobs' = [j \in Jobs |-> IF j \in OfMonitor(m)
                                       THEN [jobs[j] EXCEPT !.status = s] ELSE jobs[j]]
        PROVE  jobs' \in [Jobs -> JobType]
    <3>1. ASSUME NEW j \in Jobs PROVE jobs'[j] \in JobType
      <4>1. jobs[j] \in JobType
        BY DEF TypeOK
      <4> QED
        BY <2>1, <4>1 DEF JobType
    <3> QED
      BY <2>1, <3>1
  <2> QED
    BY <1>5, <2>1 DEF Withdraw, DeleteMonitor
<1> QED
  BY <1>1, <1>2, <1>4, <1>5
  DEF Next, vars, Routing, Sending, Operating, Passing, LockJobs, NothingToRoute, ReadRules,
      ReadChannels, Claim, CheckChannel, CancelClaimed, Deliver, FailToDeliver, Finish, Abort,
      CreateChannel, CreateRule, SetChannelEnabled, SetRuleEnabled, Retry, Tick, Elapse, Expire

\* Rules and channels stay in their types.
LEMMA TablesTyped ==
    ASSUME TypeOK, [Next]_vars
    PROVE  /\ rules' \in [Rules -> RuleType]
           /\ channels' \in [Channels -> [enabled : BOOLEAN, created : 0..MaxTime]]
<1>0. now \in 0..MaxTime
  BY LimitsAssumption DEF TypeOK
<1>1. CASE rules' = rules /\ channels' = channels
  BY <1>1 DEF TypeOK
<1>2. ASSUME NEW c \in Channels,
             CreateChannel(c) \/ \E enabled \in BOOLEAN : SetChannelEnabled(c, enabled)
      PROVE  /\ rules' = rules
             /\ channels' \in [Channels -> [enabled : BOOLEAN, created : 0..MaxTime]]
  <2>1. CASE CreateChannel(c)
    BY <1>0, <2>1 DEF CreateChannel, TypeOK
  <2>2. ASSUME NEW enabled \in BOOLEAN, SetChannelEnabled(c, enabled)
        PROVE  /\ rules' = rules
               /\ channels' \in [Channels -> [enabled : BOOLEAN, created : 0..MaxTime]]
    BY <2>2 DEF SetChannelEnabled, TypeOK
  <2> QED
    BY <1>2, <2>1, <2>2
<1>3. ASSUME NEW r \in Rules, NEW config \in RuleConfigs, CreateRule(r, config)
      PROVE  rules' \in [Rules -> RuleType] /\ channels' = channels
  <2> DEFINE rule == [status |-> "PRESENT", enabled |-> TRUE, types |-> config.types,
                      channels |-> config.channels, scope |-> config.scope, created |-> now]
  <2>1. rule \in RuleType
    BY <1>0, RuleConfigsAssumption DEF RuleType
  <2> HIDE DEF rule
  <2>2. rules' = [rules EXCEPT ![r] = rule] /\ channels' = channels
    BY <1>3 DEF CreateRule, rule
  <2> QED
    BY <2>1, <2>2 DEF TypeOK
<1>4. ASSUME NEW r \in Rules, NEW enabled \in BOOLEAN, SetRuleEnabled(r, enabled)
      PROVE  rules' \in [Rules -> RuleType] /\ channels' = channels
  BY <1>4 DEF SetRuleEnabled, TypeOK, RuleType
<1>5. ASSUME NEW m \in Monitors, DeleteMonitor(m)
      PROVE  rules' \in [Rules -> RuleType] /\ channels' = channels
  <2>1. ASSUME NEW rule \in RuleType PROVE Rescoped(rule, m) \in RuleType
    <3>1. [NoRule EXCEPT !.status = "DELETED"] \in RuleType
      <4>1. NoRule \in RuleType
        BY LimitsAssumption DEF NoRule, RuleType
      <4> QED
        BY <4>1 DEF RuleType
    <3>2. [rule EXCEPT !.scope = @ \ {m}] \in RuleType
      BY DEF RuleType
    <3> QED
      BY <3>1, <3>2 DEF Rescoped
  <2> QED
    BY <1>5, <2>1 DEF DeleteMonitor, TypeOK
<1> QED
  BY <1>1, <1>2, <1>3, <1>4, <1>5 DEF TypeOK,
      Next, vars, Routing, Sending, Operating, Passing, LockJobs, NothingToRoute, ReadRules,
      ReadChannels, Claim, CheckChannel, CancelClaimed, Deliver, FailToDeliver, Finish, Abort,
      CommitRouting, Enqueue, Withdraw, Retry, Tick, Elapse, Expire

-----------------------------------------------------------------------------
(*********************** what dispatchers and jobs do **********************)

\* A dispatcher that goes to a point holding nothing, locks jobs, reads for them, claims a
\* row, or goes on with what it claimed.
Rests(d) == dispatchers'[d] \in {At("ROUTE"), At("CLAIM")}

Locking(d) ==
    /\ jobs' = jobs
    /\ \E batch \in SUBSET Free : dispatchers'[d] = [At("RULES") EXCEPT !.jobs = batch]

Reading(d) ==
    /\ UNCHANGED <<jobs, rules, channels>>
    /\ dispatchers[d].pc \in {"RULES", "CHANNELS"}
    /\ dispatchers'[d].pc \in {"CHANNELS", "INSERT"}
    /\ dispatchers'[d].jobs = dispatchers[d].jobs
    /\ dispatchers'[d].claim = dispatchers[d].claim
    /\ dispatchers'[d].rules \in
           {dispatchers[d].rules, {rules[r] : r \in {r \in Rules : rules[r].enabled}}}
    /\ dispatchers'[d].channels \in
           {dispatchers[d].channels, {c \in Channels : channels[c].enabled}}

Claiming(d) ==
    /\ dispatchers'[d].pc = "CHECK"
    /\ dispatchers'[d].jobs = {} /\ dispatchers'[d].rules = {} /\ dispatchers'[d].channels = {}
    /\ LET claim == dispatchers'[d].claim
       IN  /\ claim.delivery \in Deliveries /\ claim.token \in FreshTokens
           /\ Claimed(claim.delivery)
           /\ deliveries'[claim.delivery].token = claim.token
           /\ deliveries'[claim.delivery].attempts = claim.attempts
           /\ \A x \in Deliveries : Claimed(x) => x = claim.delivery

GoingOn(d) ==
    /\ dispatchers[d].pc \in SendingPoints /\ dispatchers'[d].pc \in SendingPoints
    /\ dispatchers'[d].jobs = dispatchers[d].jobs
    /\ dispatchers'[d].rules = dispatchers[d].rules
    /\ dispatchers'[d].channels = dispatchers[d].channels
    /\ dispatchers'[d].claim.delivery = dispatchers[d].claim.delivery
    /\ dispatchers'[d].claim.token = dispatchers[d].claim.token
    /\ dispatchers'[d].claim.attempts = dispatchers[d].claim.attempts
    /\ dispatchers'[d].pc = "DELIVER" => dispatchers[d].pc = "CHECK"
    /\ dispatchers'[d].pc # "CHECK"
    /\ dispatchers'[d].pc = "FINISH" /\ ~dispatchers'[d].claim.failed =>
           history'[dispatchers[d].claim.delivery].sent > 0

Moves(d) == Rests(d) \/ Locking(d) \/ Reading(d) \/ Claiming(d) \/ GoingOn(d)

\* At most one of them moves.
DispatchersMove ==
    /\ dispatchers' \in [Dispatchers -> DispatcherType]
    /\ \/ dispatchers' = dispatchers
       \/ \E d \in Dispatchers :
              /\ Moves(d)
              /\ \A e \in Dispatchers : e # d => dispatchers'[e] = dispatchers[e]

\* A point of the loop, as a state of a dispatcher.
LEMMA PointTyped ==
    ASSUME NEW pc \in {"ROUTE", "RULES", "CLAIM", "CHECK"}
    PROVE  /\ At(pc) \in DispatcherType /\ At(pc).pc = pc /\ At(pc).jobs = {}
           /\ At(pc).rules = {} /\ At(pc).channels = {} /\ At(pc).claim = NoClaim
<1>1. NoClaim \in ClaimType
  BY LimitsAssumption DEF NoClaim, ClaimType
<1> QED
  BY <1>1 DEF At, DispatcherType

\* One dispatcher that moves.
LEMMA OneMoves ==
    ASSUME TypeOK, NEW d \in Dispatchers, NEW state \in DispatcherType, Move(d, state),
           dispatchers'[d] = state => Moves(d)
    PROVE  DispatchersMove
<1>1. dispatchers'[d] = state /\ dispatchers' \in [Dispatchers -> DispatcherType]
  BY DEF Move, TypeOK
<1>2. \A e \in Dispatchers : e # d => dispatchers'[e] = dispatchers[e]
  BY DEF Move, TypeOK
<1> QED
  BY <1>1, <1>2 DEF DispatchersMove

\* The dispatcher that routes: routePending, and every way to end a turn of the loop.
LEMMA RoutingMoves ==
    ASSUME TypeOK, NEW d \in Dispatchers,
           \/ LockJobs(d) \/ NothingToRoute(d) \/ Routing(d) \/ CancelClaimed(d) \/ Finish(d)
           \/ Abort(d)
    PROVE  DispatchersMove
<1>1. dispatchers[d] \in DispatcherType
  BY DEF TypeOK
<1>2. ASSUME NEW pc \in {"ROUTE", "CLAIM"}, Move(d, At(pc)) PROVE DispatchersMove
  <2>1. At(pc) \in DispatcherType
    BY PointTyped
  <2>2. At(pc) \in {At("ROUTE"), At("CLAIM")}
    OBVIOUS
  <2> QED
    BY <1>2, <2>1, <2>2, OneMoves DEF Moves, Rests
<1>3. CASE LockJobs(d)
  <2>1. PICK batch \in SUBSET Free : Move(d, [At("RULES") EXCEPT !.jobs = batch])
    BY <1>3 DEF LockJobs
  <2>2. [At("RULES") EXCEPT !.jobs = batch] \in DispatcherType
    <3>1. At("RULES") \in DispatcherType /\ batch \subseteq Jobs
      BY PointTyped DEF Free
    <3> QED
      BY <3>1 DEF DispatcherType
  <2>3. dispatchers'[d] = [At("RULES") EXCEPT !.jobs = batch] => Locking(d)
    BY <1>3 DEF LockJobs, Locking
  <2> QED
    BY <2>1, <2>2, <2>3, OneMoves DEF Moves
<1>4. CASE ReadRules(d)
  <2> DEFINE read == {rules[r] : r \in {r \in Rules : rules[r].enabled}}
             state == [dispatchers[d] EXCEPT !.pc = "CHANNELS", !.rules = read]
  <2>1. read \subseteq RuleType
    BY DEF TypeOK
  <2> HIDE DEF read
  <2>2. /\ state \in DispatcherType /\ state.pc = "CHANNELS" /\ state.rules = read
        /\ state.jobs = dispatchers[d].jobs /\ state.channels = dispatchers[d].channels
        /\ state.claim = dispatchers[d].claim
    BY <1>1, <2>1 DEF DispatcherType
  <2>3. Move(d, state) /\ dispatchers[d].pc = "RULES" /\ UNCHANGED <<jobs, rules, channels>>
    BY <1>4 DEF ReadRules, read
  <2> HIDE DEF state
  <2>4. dispatchers'[d] = state => Reading(d)
    BY <2>2, <2>3 DEF Reading, read
  <2> QED
    BY <2>2, <2>3, <2>4, OneMoves DEF Moves
<1>5. CASE ReadChannels(d)
  <2> DEFINE read == {c \in Channels : channels[c].enabled}
             state == [dispatchers[d] EXCEPT !.pc = "INSERT", !.channels = read]
  <2>1. read \subseteq Channels
    OBVIOUS
  <2> HIDE DEF read
  <2>2. /\ state \in DispatcherType /\ state.pc = "INSERT" /\ state.channels = read
        /\ state.jobs = dispatchers[d].jobs /\ state.rules = dispatchers[d].rules
        /\ state.claim = dispatchers[d].claim
    BY <1>1, <2>1 DEF DispatcherType
  <2>3. Move(d, state) /\ dispatchers[d].pc = "CHANNELS" /\ UNCHANGED <<jobs, rules, channels>>
    BY <1>5 DEF ReadChannels, read
  <2> HIDE DEF state
  <2>4. dispatchers'[d] = state => Reading(d)
    BY <2>2, <2>3 DEF Reading, read
  <2> QED
    BY <2>2, <2>3, <2>4, OneMoves DEF Moves
<1>6. CASE \/ NothingToRoute(d) \/ CommitRouting(d) \/ CancelClaimed(d) \/ Finish(d) \/ Abort(d)
  BY <1>2, <1>6 DEF NothingToRoute, CommitRouting, CancelClaimed, Finish, Abort
<1> QED
  BY <1>3, <1>4, <1>5, <1>6 DEF Routing

\* The dispatcher that claims and sends: claim, and send up to its result.
LEMMA SendingMoves ==
    ASSUME TypeOK, Leases, NEW d \in Dispatchers,
           CheckChannel(d) \/ Deliver(d) \/ FailToDeliver(d)
    PROVE  DispatchersMove
<1> DEFINE s == dispatchers[d]
<1>1. /\ s \in DispatcherType /\ s.pc \in SendingPoints /\ s.claim.delivery \in Deliveries
      /\ s.claim \in ClaimType
  <2>1. s.pc \in SendingPoints /\ s \in DispatcherType
    BY DEF CheckChannel, Deliver, FailToDeliver, SendingPoints, TypeOK
  <2> QED
    BY <2>1 DEF Leases, Leased, DispatcherType
<1>2. ASSUME NEW pc \in {"DELIVER", "CANCEL", "FINISH"}, NEW failed \in BOOLEAN,
             Move(d, [s EXCEPT !.pc = pc, !.claim.failed = failed]),
             pc = "DELIVER" => s.pc = "CHECK",
             pc = "FINISH" /\ ~failed => history'[s.claim.delivery].sent > 0
      PROVE  DispatchersMove
  <2> DEFINE claim == [s.claim EXCEPT !.failed = failed]
             state == [s EXCEPT !.pc = pc, !.claim = claim]
  <2>1. /\ claim \in ClaimType /\ claim.delivery = s.claim.delivery
        /\ claim.token = s.claim.token /\ claim.attempts = s.claim.attempts
        /\ claim.failed = failed
    BY <1>1 DEF ClaimType
  <2>2. [s EXCEPT !.pc = pc, !.claim.failed = failed] = state
    BY <1>1 DEF DispatcherType
  <2> HIDE DEF claim
  <2>3. /\ state \in DispatcherType /\ state.pc = pc /\ state.jobs = s.jobs
        /\ state.rules = s.rules /\ state.channels = s.channels /\ state.claim = claim
    BY <1>1, <2>1 DEF DispatcherType
  <2>4. Move(d, state)
    BY <1>2, <2>2
  <2> HIDE DEF state
  <2>5. dispatchers'[d] = state => GoingOn(d)
    BY <1>1, <1>2, <2>1, <2>3 DEF GoingOn, SendingPoints
  <2> QED
    BY <2>3, <2>4, <2>5, OneMoves DEF Moves
<1>3. CASE CheckChannel(d) /\ Move(d, At("ROUTE"))
  <2>1. At("ROUTE") \in DispatcherType
    BY PointTyped
  <2> QED
    BY <1>3, <2>1, OneMoves DEF Moves, Rests
<1>4. CASE CheckChannel(d) /\ ~Move(d, At("ROUTE"))
  <2> DEFINE pc == IF channels[s.claim.delivery[2]].enabled THEN "DELIVER" ELSE "CANCEL"
  <2>1. Move(d, [s EXCEPT !.pc = pc]) /\ s.pc = "CHECK"
    BY <1>4 DEF CheckChannel
  <2>2. pc \in {"DELIVER", "CANCEL"} /\ s.claim.failed \in BOOLEAN
    BY <1>1 DEF ClaimType
  <2> HIDE DEF pc
  <2>3. [s EXCEPT !.pc = pc] = [s EXCEPT !.pc = pc, !.claim.failed = s.claim.failed]
    BY <1>1 DEF DispatcherType, ClaimType
  <2> QED
    BY <1>2, <2>1, <2>2, <2>3
<1>5. CASE Deliver(d)
  <2>1. PICK failed \in BOOLEAN, received \in BOOLEAN :
           /\ ~failed => received
           /\ Move(d, [s EXCEPT !.pc = "FINISH", !.claim.failed = failed])
           /\ history' = IF received
                         THEN [history EXCEPT ![s.claim.delivery].sent = @ + 1] ELSE history
    BY <1>5 DEF Deliver
  <2>2. received => history'[s.claim.delivery].sent > 0
    BY <1>1, <2>1 DEF TypeOK
  <2> QED
    BY <1>2, <2>1, <2>2
<1>6. CASE FailToDeliver(d)
  BY <1>2, <1>6 DEF FailToDeliver
<1> QED
  BY <1>3, <1>4, <1>5, <1>6

\* The dispatcher that claims: claim.
LEMMA ClaimMoves ==
    ASSUME TypeOK, NEW d \in Dispatchers, Claim(d)
    PROVE  DispatchersMove
<1>1. CASE Move(d, At("ROUTE"))
  <2>1. At("ROUTE") \in DispatcherType
    BY PointTyped
  <2> QED
    BY <1>1, <2>1, OneMoves DEF Moves, Rests
<1>2. ASSUME NEW y \in Deliveries, Claimable(y), FreshTokens # {},
             deliveries' = [GivenUp EXCEPT ![y].status = "PROCESSING", ![y].attempts = @ + 1,
                                           ![y].token = NewToken, ![y].live = TRUE],
             Move(d, [At("CHECK") EXCEPT !.claim =
                        [delivery |-> y, token |-> NewToken,
                         attempts |-> deliveries[y].attempts + 1, failed |-> FALSE]])
      PROVE  DispatchersMove
  <2> DEFINE claim == [delivery |-> y, token |-> NewToken,
                       attempts |-> deliveries[y].attempts + 1, failed |-> FALSE]
             state == [At("CHECK") EXCEPT !.claim = claim]
  <2>1. NewToken \in FreshTokens /\ NewToken \in Tokens
    BY <1>2 DEF NewToken, FreshTokens
  <2>2. /\ deliveries[y] \in DeliveryType /\ deliveries[y].attempts < MaxAttempts
        /\ deliveries[y].status \in {"PENDING", "PROCESSING"}
    BY <1>2 DEF Claimable, TypeOK
  <2>3. /\ deliveries[y].attempts + 1 \in 0..MaxAttempts /\ ~Exhausted(y)
    BY <2>2, LimitsAssumption DEF Exhausted, DeliveryType
  <2>4. claim \in ClaimType
    BY <2>1, <2>3 DEF ClaimType
  <2>5. /\ claim.delivery = y /\ claim.token = NewToken
        /\ claim.attempts = deliveries[y].attempts + 1
    OBVIOUS
  <2> HIDE DEF claim
  <2>6. /\ state \in DispatcherType /\ state.pc = "CHECK" /\ state.claim = claim
        /\ state.jobs = {} /\ state.rules = {} /\ state.channels = {}
    <3>1. /\ At("CHECK") \in DispatcherType /\ At("CHECK").pc = "CHECK"
          /\ At("CHECK").jobs = {} /\ At("CHECK").rules = {} /\ At("CHECK").channels = {}
      BY PointTyped
    <3> QED
      BY <2>4, <3>1 DEF DispatcherType
  <2>7. Move(d, state)
    BY <1>2 DEF claim
  <2> HIDE DEF state
  <2>8. GivenUp[y] = deliveries[y]
    BY <2>3 DEF GivenUp
  <2>9. deliveries'[y] = [deliveries[y] EXCEPT !.status = "PROCESSING",
            !.attempts = deliveries[y].attempts + 1, !.token = NewToken, !.live = TRUE]
    BY <1>2, <2>8 DEF GivenUp
  <2>10. /\ deliveries'[y].status = "PROCESSING" /\ deliveries'[y].token = NewToken
         /\ deliveries'[y].attempts = deliveries[y].attempts + 1
    BY <2>2, <2>9 DEF DeliveryType
  <2>11. Claimed(y)
    BY <2>1, <2>2, <2>10 DEF Claimed, Unsettled, JobKept, Claim
  <2>12. ASSUME NEW x \in Deliveries, x # y PROVE ~Claimed(x)
    <3>1. deliveries'[x] = GivenUp[x]
      BY <1>2, <2>12 DEF GivenUp
    <3>2. deliveries'[x].attempts = deliveries[x].attempts /\ deliveries[x] \in DeliveryType
      BY <3>1 DEF GivenUp, TypeOK, DeliveryType
    <3> QED
      BY <3>2, LimitsAssumption DEF Claimed, DeliveryType
  <2>13. dispatchers'[d] = state => Claiming(d)
    BY <2>1, <2>5, <2>6, <2>10, <2>11, <2>12 DEF Claiming
  <2> QED
    BY <2>6, <2>7, <2>13, OneMoves DEF Moves
<1> QED
  BY <1>1, <1>2 DEF Claim

\* Every step moves at most one dispatcher, in one of these ways.
LEMMA DispatchersStep ==
    ASSUME TypeOK, Leases, [Next]_vars
    PROVE  DispatchersMove
<1>1. ASSUME NEW d \in Dispatchers,
             \/ LockJobs(d) \/ NothingToRoute(d) \/ Routing(d)
             \/ Claim(d) \/ Sending(d) \/ FailToDeliver(d) \/ Abort(d)
      PROVE  DispatchersMove
  BY <1>1, RoutingMoves, SendingMoves, ClaimMoves DEF Sending
<1>2. CASE dispatchers' = dispatchers
  BY <1>2 DEF DispatchersMove, TypeOK
<1> QED
  BY <1>1, <1>2
  DEF Next, vars, Operating, Passing, Enqueue, CreateChannel, CreateRule, SetChannelEnabled,
      SetRuleEnabled, Retry, Withdraw, DeleteMonitor, Tick, Elapse, Expire

SameEvent(j) == jobs'[j].monitor = jobs[j].monitor /\ jobs'[j].created = jobs[j].created
                /\ jobs'[j].type = jobs[j].type

\* A job is enqueued, routed by who locked it, withdrawn or deleted while nobody has, or kept.
JobStep(j) ==
    \/ jobs'[j] = jobs[j]
    \/ jobs[j].status = "NONE" /\ jobs'[j].status = "PENDING"
    \/ /\ SameEvent(j) /\ jobs'[j].status \in {"ROUTED", "IGNORED"}
       /\ \E d \in Dispatchers : j \in dispatchers[d].jobs /\ dispatchers'[d] = At("CLAIM")
    \/ SameEvent(j) /\ j \notin Locked /\ JobWithdrawn(j)
    \/ /\ SameEvent(j) /\ j \notin Locked
       /\ jobs'[j].status = "DELETED" /\ jobs'[j].monitor \in deleted'

\* Every step moves every job in one of these ways.
LEMMA JobsStep ==
    ASSUME TypeOK, Outbox, [Next]_vars, NEW j \in Jobs
    PROVE  JobStep(j)
<1>0. jobs[j] \in JobType
  BY DEF TypeOK
<1>1. ASSUME NEW i \in Jobs, NEW m \in Monitors, NEW type \in Types, NEW at \in 1..now,
             Enqueue(i, m, type, at)
      PROVE  JobStep(j)
  <2>1. CASE i = j
    <3>1. jobs[j].status = "NONE" /\ jobs'[j].status = "PENDING"
      BY <1>1, <2>1 DEF Enqueue, TypeOK
    <3> QED
      BY <3>1 DEF JobStep
  <2>2. CASE i # j
    <3>1. jobs'[j] = jobs[j]
      BY <1>1, <2>2 DEF Enqueue, TypeOK
    <3> QED
      BY <3>1 DEF JobStep
  <2> QED
    BY <2>1, <2>2
<1>2. ASSUME NEW status, jobs'[j] = [jobs[j] EXCEPT !.status = status]
      PROVE  SameEvent(j) /\ jobs'[j].status = status
  BY <1>0, <1>2 DEF SameEvent, JobType
<1>3. ASSUME NEW d \in Dispatchers, CommitRouting(d) PROVE JobStep(j)
  <2>1. dispatchers'[d] = At("CLAIM")
    BY <1>3 DEF CommitRouting, Move, TypeOK
  <2>2. CASE j \in dispatchers[d].jobs
    <3>1. jobs'[j] = [jobs[j] EXCEPT !.status = Routed(d, j)]
      BY <1>3, <2>2 DEF CommitRouting
    <3>2. Routed(d, j) \in {"ROUTED", "IGNORED"}
      BY DEF Routed
    <3>3. SameEvent(j) /\ jobs'[j].status = Routed(d, j)
      BY <1>2, <3>1
    <3> QED
      BY <2>1, <2>2, <3>2, <3>3 DEF JobStep
  <2>3. CASE j \notin dispatchers[d].jobs
    BY <1>3, <2>3 DEF CommitRouting, JobStep
  <2> QED
    BY <2>2, <2>3
<1>4. ASSUME NEW m \in Monitors, Withdraw(m) \/ DeleteMonitor(m) PROVE JobStep(j)
  <2>1. CASE j \notin OfMonitor(m)
    BY <1>4, <2>1 DEF Withdraw, DeleteMonitor, JobStep
  <2>2. CASE j \in OfMonitor(m)
    <3>1. /\ j \notin Locked /\ jobs[j].monitor = m /\ m \notin deleted /\ m # None
      BY <1>4, <2>2, IdsAssumption DEF Withdraw, DeleteMonitor, Unrouted, OfMonitor
    <3>2. jobs[j].status \notin {"NONE", "DELETED"}
      BY <3>1 DEF Outbox
    <3>3. CASE Withdraw(m)
      <4>1. jobs'[j] = [jobs[j] EXCEPT !.status = "CANCELLED"]
        BY <2>2, <3>3 DEF Withdraw
      <4>2. SameEvent(j) /\ jobs'[j].status = "CANCELLED"
        BY <1>2, <4>1
      <4> QED
        BY <3>1, <3>2, <4>2 DEF JobStep, JobWithdrawn
    <3>4. CASE DeleteMonitor(m)
      <4>1. jobs'[j] = [jobs[j] EXCEPT !.status = "DELETED"] /\ m \in deleted'
        BY <2>2, <3>4 DEF DeleteMonitor
      <4>2. SameEvent(j) /\ jobs'[j].status = "DELETED"
        BY <1>2, <4>1
      <4>3. jobs'[j].monitor \in deleted'
        BY <3>1, <4>1, <4>2 DEF SameEvent
      <4> QED
        BY <3>1, <4>2, <4>3 DEF JobStep
    <3> QED
      BY <1>4, <3>3, <3>4
  <2> QED
    BY <2>1, <2>2
<1>5. CASE jobs' = jobs
  BY <1>5 DEF JobStep
<1> QED
  BY <1>1, <1>3, <1>4, <1>5
  DEF Next, vars, Routing, Sending, Operating, Passing, LockJobs, NothingToRoute, ReadRules,
      ReadChannels, Claim, CheckChannel, CancelClaimed, Deliver, FailToDeliver, Finish, Abort,
      CreateChannel, CreateRule, SetChannelEnabled, SetRuleEnabled, Retry, Tick, Elapse, Expire

-----------------------------------------------------------------------------
(***************************** the invariant *******************************)

\* Types, and no delivery is stranded: by what rows do.
LEMMA TypeStep ==
    ASSUME TypeOK, Outbox, Locks, Leases, [Next]_vars
    PROVE  TypeOK'
<1>1. RowsMove /\ DispatchersMove /\ jobs' \in [Jobs -> JobType]
  BY RowsStep, DispatchersStep, JobsTyped
<1>2. /\ rules' \in [Rules -> RuleType]
      /\ channels' \in [Channels -> [enabled : BOOLEAN, created : 0..MaxTime]]
  BY TablesTyped
<1>3. now' \in 1..MaxTime /\ deleted' \subseteq Monitors
  <2>1. CASE UNCHANGED <<now, deleted>>
    BY <2>1 DEF TypeOK
  <2>2. CASE Tick
    BY <2>2, LimitsAssumption DEF Tick, TypeOK
  <2>3. ASSUME NEW m \in Monitors, DeleteMonitor(m)
        PROVE  now' \in 1..MaxTime /\ deleted' \subseteq Monitors
    BY <2>3 DEF DeleteMonitor, TypeOK
  <2> QED
    BY <2>1, <2>2, <2>3 DEF
      Next, vars, Routing, Sending, Operating, Passing, LockJobs, NothingToRoute, ReadRules,
      ReadChannels, Claim, CheckChannel, CancelClaimed, Deliver, FailToDeliver, Finish, Abort,
      CommitRouting, Enqueue, Withdraw, CreateChannel, CreateRule, SetChannelEnabled,
      SetRuleEnabled, Retry, Elapse, Expire
<1>4. history' \in [Deliveries -> [sent : Nat, retried : Nat]]
  <2>1. CASE history' = history
    BY <2>1 DEF TypeOK
  <2>2. ASSUME NEW d \in Dispatchers, Deliver(d)
        PROVE  history' \in [Deliveries -> [sent : Nat, retried : Nat]]
    <3>1. ASSUME history' = [history EXCEPT ![dispatchers[d].claim.delivery].sent = @ + 1]
          PROVE  history' \in [Deliveries -> [sent : Nat, retried : Nat]]
      <4>1. dispatchers[d].claim.delivery \in Deliveries
        BY <2>2 DEF Deliver, Leases, Leased, SendingPoints
      <4> DEFINE x == dispatchers[d].claim.delivery
                 row == [history[x] EXCEPT !.sent = history[x].sent + 1]
      <4>2. history[x] \in [sent : Nat, retried : Nat]
        BY <4>1 DEF TypeOK
      <4>3. row \in [sent : Nat, retried : Nat]
        BY <4>2
      <4>4. history' = [history EXCEPT ![x] = row]
        BY <3>1, <4>1 DEF TypeOK
      <4> QED
        BY <4>3, <4>4 DEF TypeOK
    <3> QED
      BY <2>2, <3>1 DEF Deliver, TypeOK
  <2>3. ASSUME NEW x \in Deliveries, Retry(x)
        PROVE  history' \in [Deliveries -> [sent : Nat, retried : Nat]]
    BY <2>3 DEF Retry, TypeOK
  <2> QED
    BY <2>1, <2>2, <2>3 DEF
      Next, vars, Routing, Sending, Operating, Passing, LockJobs, NothingToRoute, ReadRules,
      ReadChannels, Claim, CheckChannel, CancelClaimed, FailToDeliver, Finish, Abort,
      CommitRouting, Enqueue, Withdraw, DeleteMonitor, CreateChannel, CreateRule,
      SetChannelEnabled, SetRuleEnabled, Tick, Elapse, Expire
<1>5. ASSUME NEW x \in Deliveries
      PROVE  /\ deliveries'[x].status = "PENDING" => deliveries'[x].attempts < MaxAttempts
             /\ deliveries'[x].status = "FAILED"  => deliveries'[x].attempts = MaxAttempts
  <2>1. /\ RowStep(x) /\ 0 < MaxAttempts
        /\ deliveries[x].status = "PENDING" => deliveries[x].attempts < MaxAttempts
        /\ deliveries[x].status = "FAILED"  => deliveries[x].attempts = MaxAttempts
    BY <1>1, LimitsAssumption DEF RowsMove, TypeOK
  <2> QED
    BY <2>1 DEF RowStep, Kept, Made, Claimed, Settled, Withdrawn, Retried, Removed
<1> QED
  BY <1>1, <1>2, <1>3, <1>4, <1>5 DEF TypeOK, RowsMove, DispatchersMove

\* What is enabled is there: by what operators do.
LEMMA ConfiguredStep ==
    ASSUME TypeOK, Configured, [Next]_vars
    PROVE  Configured'
<1>1. CASE rules' = rules /\ channels' = channels
  BY <1>1 DEF Configured, Created
<1>2. ASSUME NEW c \in Channels,
             CreateChannel(c) \/ \E enabled \in BOOLEAN : SetChannelEnabled(c, enabled)
      PROVE  Configured'
  <2>1. rules' = rules
    BY <1>2 DEF CreateChannel, SetChannelEnabled
  <2>2. ASSUME NEW b \in Channels, channels'[b].enabled PROVE channels'[b].created > 0
    <3>1. CASE CreateChannel(c)
      BY <2>2, <3>1, LimitsAssumption DEF CreateChannel, Configured, Created, TypeOK
    <3>2. ASSUME NEW enabled \in BOOLEAN, SetChannelEnabled(c, enabled)
          PROVE  channels'[b].created > 0
      <4>1. channels'[b].created = channels[b].created
        BY <3>2 DEF SetChannelEnabled, TypeOK
      <4>2. b = c \/ channels'[b] = channels[b]
        BY <3>2 DEF SetChannelEnabled, TypeOK
      <4> QED
        BY <2>2, <3>2, <4>1, <4>2 DEF SetChannelEnabled, Configured, Created
    <3> QED
      BY <1>2, <3>1, <3>2
  <2> QED
    BY <2>1, <2>2 DEF Configured, Created
<1>3. ASSUME NEW r \in Rules,
             \/ \E config \in RuleConfigs : CreateRule(r, config)
             \/ \E enabled \in BOOLEAN : SetRuleEnabled(r, enabled)
      PROVE  Configured'
  <2>1. channels' = channels
    BY <1>3 DEF CreateRule, SetRuleEnabled
  <2>2. \A q \in Rules : q = r \/ rules'[q] = rules[q]
    BY <1>3 DEF CreateRule, SetRuleEnabled, TypeOK
  <2>3. rules'[r].status = "PRESENT"
    BY <1>3 DEF CreateRule, SetRuleEnabled, TypeOK, RuleType
  <2> QED
    BY <2>1, <2>2, <2>3 DEF Configured, Created
<1>4. ASSUME NEW m \in Monitors, DeleteMonitor(m) PROVE Configured'
  <2>1. channels' = channels
    BY <1>4 DEF DeleteMonitor
  <2>2. ASSUME NEW r \in Rules, rules'[r].enabled PROVE rules'[r].status = "PRESENT"
    <3>1. rules'[r] = Rescoped(rules[r], m) /\ rules[r] \in RuleType
      BY <1>4 DEF DeleteMonitor, TypeOK
    <3>2. CASE rules[r].scope = {m}
      BY <2>2, <3>1, <3>2 DEF Rescoped, NoRule
    <3>3. CASE rules[r].scope # {m}
      <4>1. rules'[r].enabled = rules[r].enabled /\ rules'[r].status = rules[r].status
        BY <3>1, <3>3 DEF Rescoped, RuleType
      <4> QED
        BY <2>2, <4>1 DEF Configured
    <3> QED
      BY <3>2, <3>3
  <2> QED
    BY <2>1, <2>2 DEF Configured, Created
<1> QED
  BY <1>1, <1>2, <1>3, <1>4 DEF
      Next, vars, Routing, Sending, Operating, Passing, LockJobs, NothingToRoute, ReadRules,
      ReadChannels, Claim, CheckChannel, CancelClaimed, Deliver, FailToDeliver, Finish, Abort,
      CommitRouting, Enqueue, Withdraw, Retry, Tick, Elapse, Expire

\* Jobs and their rows go together: complete, routePending, updateMonitor, deleteMonitor.
LEMMA OutboxStep ==
    ASSUME TypeOK, Outbox, Locks, Leases, [Next]_vars
    PROVE  Outbox'
<1>1. RowsMove
  BY RowsStep
<1>2. deleted \subseteq deleted'
  BY DEF Next, vars, Routing, Sending, Operating, Passing, LockJobs, NothingToRoute, ReadRules,
      ReadChannels, Claim, CheckChannel, CancelClaimed, Deliver, FailToDeliver, Finish, Abort,
      CommitRouting, Enqueue, Withdraw, DeleteMonitor, CreateChannel, CreateRule,
      SetChannelEnabled, SetRuleEnabled, Retry, Tick, Elapse, Expire
<1>3. ASSUME NEW j \in Jobs
      PROVE  /\ jobs'[j].status = "NONE" => jobs'[j].monitor = None
             /\ jobs'[j].status = "DELETED" => jobs'[j].monitor \in deleted'
  <2>1. JobStep(j)
    BY JobsStep
  <2>2. /\ jobs[j].status = "NONE" => jobs[j].monitor = None
        /\ jobs[j].status = "DELETED" => jobs[j].monitor \in deleted
    BY DEF Outbox
  <2> QED
    BY <1>2, <2>1, <2>2 DEF JobStep, JobWithdrawn
<1>4. ASSUME NEW x \in Deliveries
      PROVE  /\ jobs'[x[1]].status \in {"NONE", "PENDING", "DELETED"} => deliveries'[x].status = "NONE"
             /\ jobs'[x[1]].status = "CANCELLED" =>
                    deliveries'[x].status \in {"NONE", "SENT", "CANCELLED"}
             /\ deliveries'[x].status = "NONE" => deliveries'[x].attempts = 0
  <2> DEFINE j == x[1]
  <2>1. x = <<x[1], x[2]>> /\ x[1] \in Jobs /\ x[2] \in Channels
    BY DEF Deliveries
  <2>2. RowStep(x)
    BY <1>1 DEF RowsMove
  <2>3. /\ jobs[j].status \in {"NONE", "PENDING", "DELETED"} => deliveries[x].status = "NONE"
        /\ jobs[j].status = "CANCELLED" => deliveries[x].status \in {"NONE", "SENT", "CANCELLED"}
        /\ deliveries[x].status = "NONE" => deliveries[x].attempts = 0
    BY <2>1 DEF Outbox, Row
  <2> HIDE DEF j
  <2>4. CASE Kept(x)
    BY <2>3, <2>4 DEF Kept, JobKept, JobWithdrawn, j
  <2>5. CASE Claimed(x) \/ Settled(x)
    BY <2>3, <2>5 DEF Claimed, Settled, Unsettled, JobKept, JobWithdrawn, j
  <2>6. CASE Made(x) \/ Withdrawn(x) \/ Retried(x) \/ Removed(x)
    BY <2>3, <2>6 DEF Made, Withdrawn, Retried, Removed, JobKept, JobWithdrawn, j
  <2> QED
    BY <2>2, <2>4, <2>5, <2>6 DEF RowStep
<1>5. \A j \in Jobs, c \in Channels : <<j, c>> \in Deliveries /\ <<j, c>>[1] = j
  BY DEF Deliveries
<1> QED
  BY <1>3, <1>4, <1>5 DEF Outbox, Row

\* One dispatcher routes a job at a time, and the job waits for it: FOR UPDATE SKIP LOCKED.
LEMMA LocksStep ==
    ASSUME TypeOK, Outbox, Locks, Leases, [Next]_vars
    PROVE  Locks'
<1>1. DispatchersMove /\ \A j \in Jobs : JobStep(j)
  BY DispatchersStep, JobsStep
<1>2. CASE dispatchers' = dispatchers
  <2>1. ASSUME NEW d \in Dispatchers, NEW j \in dispatchers[d].jobs
        PROVE  jobs'[j].status = "PENDING"
    <3>1. j \in Jobs /\ j \in Locked /\ jobs[j].status = "PENDING"
      BY DEF TypeOK, DispatcherType, Locked, Locks
    <3>2. \A e \in Dispatchers : j \in dispatchers[e].jobs => dispatchers'[e] # At("CLAIM")
      BY <1>2, PointTyped
    <3> QED
      BY <1>1, <3>1, <3>2 DEF JobStep
  <2> QED
    BY <1>2, <2>1 DEF Locks
<1>3. ASSUME NEW d \in Dispatchers, Moves(d),
             \A e \in Dispatchers : e # d => dispatchers'[e] = dispatchers[e]
      PROVE  Locks'
  <2>1. ASSUME NEW e \in Dispatchers, e # d, NEW j \in dispatchers'[e].jobs
        PROVE  jobs'[j].status = "PENDING"
    <3>1. /\ dispatchers'[e] = dispatchers[e] /\ j \in Jobs /\ j \in Locked
          /\ jobs[j].status = "PENDING" /\ j \notin dispatchers[d].jobs
      BY <1>3, <2>1 DEF TypeOK, DispatcherType, Locked, Locks
    <3>2. \A f \in Dispatchers : j \in dispatchers[f].jobs => f = e
      BY <3>1 DEF Locks
    <3>3. dispatchers'[e] # At("CLAIM")
      BY <2>1, PointTyped
    <3> QED
      BY <1>1, <3>1, <3>2, <3>3 DEF JobStep
  <2>2. /\ dispatchers'[d].jobs # {} => dispatchers'[d].pc \in {"RULES", "CHANNELS", "INSERT"}
        /\ \A j \in dispatchers'[d].jobs : jobs'[j].status = "PENDING"
        /\ \A e \in Dispatchers : e # d => dispatchers'[d].jobs \cap dispatchers[e].jobs = {}
    <3>1. CASE Rests(d)
      BY <3>1, PointTyped DEF Rests
    <3>2. CASE Locking(d)
      <4>1. PICK batch \in SUBSET Free : dispatchers'[d] = [At("RULES") EXCEPT !.jobs = batch]
        BY <3>2 DEF Locking
      <4>2. dispatchers'[d].jobs = batch /\ dispatchers'[d].pc = "RULES"
        BY <4>1 DEF At
      <4> QED
        BY <3>2, <4>2 DEF Locking, Free, Locked
    <3>3. CASE Reading(d)
      BY <3>3 DEF Reading, Locks
    <3>4. CASE Claiming(d)
      BY <3>4 DEF Claiming
    <3>5. CASE GoingOn(d)
      <4>1. dispatchers[d].jobs = {}
        BY <3>5 DEF GoingOn, Locks, SendingPoints
      <4> QED
        BY <3>5, <4>1 DEF GoingOn
    <3> QED
      BY <1>3, <3>1, <3>2, <3>3, <3>4, <3>5 DEF Moves
  <2> QED
    BY <1>3, <2>1, <2>2 DEF Locks
<1> QED
  BY <1>1, <1>2, <1>3 DEF DispatchersMove

\* Who delivers, when a request reached the provider.
Delivering(d, x) ==
    /\ dispatchers[d].pc = "DELIVER" /\ dispatchers[d].claim.delivery = x
    /\ dispatchers'[d].pc = "FINISH"
    /\ \A e \in Dispatchers : e # d => dispatchers'[e] = dispatchers[e]

\* The history of a delivery changes with a request or a retry, and never goes back.
LEMMA HistoryStep ==
    ASSUME TypeOK, Leases, [Next]_vars, NEW x \in Deliveries
    PROVE  \/ history'[x] = history[x]
           \/ /\ history'[x].sent = history[x].sent + 1
              /\ history'[x].retried = history[x].retried
              /\ UNCHANGED <<jobs, deliveries>>
              /\ \E d \in Dispatchers : Delivering(d, x)
           \/ Retried(x) /\ dispatchers' = dispatchers
<1>1. CASE history' = history
  BY <1>1
<1>2. ASSUME NEW d \in Dispatchers, Deliver(d), history' # history
      PROVE  \/ history'[x] = history[x]
             \/ /\ history'[x].sent = history[x].sent + 1
                /\ history'[x].retried = history[x].retried
                /\ UNCHANGED <<jobs, deliveries>>
                /\ Delivering(d, x)
  <2>1. /\ history' = [history EXCEPT ![dispatchers[d].claim.delivery].sent = @ + 1]
        /\ UNCHANGED <<jobs, deliveries>>
    BY <1>2 DEF Deliver
  <2>2. /\ dispatchers[d].pc = "DELIVER" /\ dispatchers'[d].pc = "FINISH"
        /\ \A e \in Dispatchers : e # d => dispatchers'[e] = dispatchers[e]
    <3>1. dispatchers[d] \in DispatcherType
      BY DEF TypeOK
    <3>2. PICK failed \in BOOLEAN :
             dispatchers' = [dispatchers EXCEPT
                 ![d] = [dispatchers[d] EXCEPT !.pc = "FINISH", !.claim.failed = failed]]
      BY <1>2 DEF Deliver, Move
    <3> QED
      BY <1>2, <3>1, <3>2 DEF Deliver, TypeOK, DispatcherType
  <2>3. history[x] \in [sent : Nat, retried : Nat]
    BY DEF TypeOK
  <2>4. CASE dispatchers[d].claim.delivery = x
    BY <2>1, <2>2, <2>3, <2>4 DEF Delivering, TypeOK
  <2>5. CASE dispatchers[d].claim.delivery # x
    BY <2>1, <2>5 DEF TypeOK
  <2> QED
    BY <2>4, <2>5
<1>3. ASSUME NEW y \in Deliveries, Retry(y)
      PROVE  history'[x] = history[x] \/ (Retried(x) /\ dispatchers' = dispatchers)
  <2>1. CASE x # y
    BY <1>3, <2>1 DEF Retry, TypeOK
  <2>2. CASE x = y
    <3>1. /\ deliveries[x] \in DeliveryType /\ deliveries[x].status = "FAILED" /\ jobs' = jobs
          /\ deliveries'[x] = [deliveries[x] EXCEPT !.status = "PENDING", !.attempts = 0,
                                                    !.due = TRUE]
          /\ history'[x] = [history[x] EXCEPT !.retried = history[x].retried + 1]
          /\ history[x] \in [sent : Nat, retried : Nat] /\ dispatchers' = dispatchers
      BY <1>3, <2>2 DEF Retry, TypeOK
    <3> QED
      BY <3>1 DEF Retried, JobKept, DeliveryType
  <2> QED
    BY <2>1, <2>2
<1> QED
  BY <1>1, <1>2, <1>3 DEF
      Next, vars, Routing, Sending, Operating, Passing, LockJobs, NothingToRoute, ReadRules,
      ReadChannels, Claim, CheckChannel, CancelClaimed, FailToDeliver, Finish, Abort,
      CommitRouting, Enqueue, Withdraw, DeleteMonitor, CreateChannel, CreateRule,
      SetChannelEnabled, SetRuleEnabled, Tick, Elapse, Expire

\* A token names one attempt of one delivery, and no other claim gets it: randomUUID, and
\* the conditions on the token in send and finish.
LEMMA LeasesStep ==
    ASSUME TypeOK, Outbox, Locks, Leases, [Next]_vars
    PROVE  Leases'
<1>1. DispatchersMove /\ RowsMove
  BY DispatchersStep, RowsStep
<1>2. ASSUME NEW x \in Deliveries, deliveries'[x].token # None
      PROVE  /\ deliveries'[x].status = "PROCESSING"
             /\ \/ Claimed(x)
                \/ /\ deliveries'[x].token = deliveries[x].token
                   /\ deliveries'[x].attempts = deliveries[x].attempts
  <2>1. RowStep(x) /\ (deliveries[x].token # None => deliveries[x].status = "PROCESSING")
    BY <1>1 DEF RowsMove, Leases
  <2> QED
    BY <1>2, <2>1 DEF RowStep, Kept, Made, Claimed, Settled, Withdrawn, Retried, Removed
<1>3. ASSUME NEW x \in Deliveries,
             deliveries[x].status # "NONE" \/ jobs[x[1]].status = "DELETED"
      PROVE  deliveries'[x].status # "NONE" \/ jobs'[x[1]].status = "DELETED"
  <2>1. RowStep(x)
    BY <1>1 DEF RowsMove
  <2> QED
    BY <1>3, <2>1 DEF RowStep, Kept, Made, Claimed, Settled, Withdrawn, Retried, Removed,
                      JobKept, JobWithdrawn
<1>4. ASSUME NEW x \in Deliveries PROVE history[x].sent > 0 => history'[x].sent > 0
  <2>1. history[x].sent \in Nat
    BY DEF TypeOK
  <2> QED
    BY <2>1, HistoryStep DEF Retried
<1>5. ASSUME NEW d \in Dispatchers, dispatchers[d].pc \in SendingPoints,
             dispatchers'[d].pc \in SendingPoints,
             dispatchers'[d].claim.delivery = dispatchers[d].claim.delivery,
             dispatchers'[d].claim.token = dispatchers[d].claim.token,
             dispatchers'[d].claim.attempts = dispatchers[d].claim.attempts,
             dispatchers'[d].pc = "FINISH" /\ ~dispatchers'[d].claim.failed =>
                 history'[dispatchers[d].claim.delivery].sent > 0
      PROVE  Leased(d)'
  <2> DEFINE x == dispatchers[d].claim.delivery
             token == dispatchers[d].claim.token
  <2>1. /\ x \in Deliveries /\ token \in Tokens
        /\ deliveries[x].status # "NONE" \/ jobs[x[1]].status = "DELETED"
        /\ \A y \in Deliveries : deliveries[y].token = token =>
               y = x /\ deliveries[y].attempts = dispatchers[d].claim.attempts
    BY <1>5 DEF Leases, Leased
  <2>2. ASSUME NEW y \in Deliveries, deliveries'[y].token = token
        PROVE  y = x /\ deliveries'[y].attempts = dispatchers[d].claim.attempts
    <3>1. deliveries'[y].token # None
      BY <2>1, <2>2, IdsAssumption
    <3>2. ~Claimed(y)
      BY <2>2 DEF Claimed, FreshTokens
    <3> QED
      BY <1>2, <2>1, <2>2, <3>1, <3>2
  <2>3. deliveries'[x].status # "NONE" \/ jobs'[x[1]].status = "DELETED"
    BY <1>3, <2>1
  <2> QED
    BY <1>5, <2>1, <2>2, <2>3 DEF Leased
<1>6. ASSUME NEW d \in Dispatchers, dispatchers'[d] = dispatchers[d]
      PROVE  Leased(d)'
  <2>1. CASE dispatchers[d].pc \in SendingPoints
    <3>1. /\ dispatchers[d].claim.delivery \in Deliveries
          /\ dispatchers[d].pc = "FINISH" /\ ~dispatchers[d].claim.failed =>
                 history[dispatchers[d].claim.delivery].sent > 0
      BY <2>1 DEF Leases, Leased
    <3>2. dispatchers'[d].pc = "FINISH" /\ ~dispatchers'[d].claim.failed =>
             history'[dispatchers[d].claim.delivery].sent > 0
      BY <1>4, <1>6, <3>1
    <3> QED
      BY <1>5, <1>6, <2>1, <3>2
  <2>2. CASE dispatchers[d].pc \notin SendingPoints
    BY <1>6, <2>2 DEF Leases, Leased
  <2> QED
    BY <2>1, <2>2
<1>7. ASSUME NEW d \in Dispatchers, Moves(d) PROVE Leased(d)'
  <2>1. CASE Rests(d)
    BY <2>1, PointTyped DEF Rests, Leased, SendingPoints
  <2>2. CASE Locking(d)
    BY <2>2 DEF Locking, At, Leased, SendingPoints
  <2>3. CASE Reading(d)
    BY <2>3 DEF Reading, Leases, Leased, SendingPoints
  <2>4. CASE Claiming(d)
    <3> DEFINE claim == dispatchers'[d].claim
    <3>1. /\ dispatchers'[d].pc = "CHECK" /\ claim.delivery \in Deliveries
          /\ claim.token \in FreshTokens /\ claim.token \in Tokens
          /\ Claimed(claim.delivery)
          /\ deliveries'[claim.delivery].attempts = claim.attempts
          /\ \A x \in Deliveries : Claimed(x) => x = claim.delivery
      BY <2>4 DEF Claiming, FreshTokens
    <3>2. deliveries'[claim.delivery].status # "NONE"
      BY <3>1 DEF Claimed
    <3>3. ASSUME NEW y \in Deliveries, deliveries'[y].token = claim.token
          PROVE  y = claim.delivery /\ deliveries'[y].attempts = claim.attempts
      <4>1. deliveries'[y].token # None /\ deliveries[y].token # claim.token
        BY <3>1, <3>3, IdsAssumption DEF FreshTokens
      <4>2. Claimed(y)
        BY <1>2, <3>3, <4>1
      <4> QED
        BY <3>1, <4>2
    <3> HIDE DEF claim
    <3>4. dispatchers'[d].pc \in SendingPoints /\ dispatchers'[d].pc # "FINISH"
      BY <3>1 DEF SendingPoints
    <3> QED
      BY <3>1, <3>2, <3>3, <3>4 DEF Leased, claim
  <2>5. CASE GoingOn(d)
    BY <1>5, <2>5 DEF GoingOn
  <2> QED
    BY <1>7, <2>1, <2>2, <2>3, <2>4, <2>5 DEF Moves
<1>8. \A d \in Dispatchers : Leased(d)'
  BY <1>1, <1>6, <1>7 DEF DispatchersMove
<1> QED
  BY <1>2, <1>8 DEF Leases

\* Who may still make a request did so before, or claims the row now.
LEMMA PendingStep ==
    ASSUME TypeOK, DispatchersMove, NEW x \in Deliveries, IsFiniteSet(Pending(x))
    PROVE  /\ IsFiniteSet(Pending(x)') /\ Cardinality(Pending(x)) \in Nat
           /\ Cardinality(Pending(x)') \in Nat
           /\ Cardinality(Pending(x)') <= Cardinality(Pending(x)) + (IF Claimed(x) THEN 1 ELSE 0)
<1>1. ASSUME NEW d \in Dispatchers, Moves(d), ~Claiming(d), d \in Pending(x)' PROVE d \in Pending(x)
  <2>1. dispatchers'[d].pc \in {"CHECK", "DELIVER"} /\ dispatchers'[d].claim.delivery = x
    BY <1>1 DEF Pending
  <2>2. ~Rests(d) /\ ~Locking(d)
    BY <2>1, PointTyped DEF Rests, Locking, At
  <2>3. ~Reading(d)
    BY <2>1 DEF Reading
  <2> QED
    BY <1>1, <2>1, <2>2, <2>3 DEF Moves, GoingOn, Pending
<1>2. CASE Pending(x)' \subseteq Pending(x)
  <2>1. IsFiniteSet(Pending(x)') /\ Cardinality(Pending(x)') <= Cardinality(Pending(x))
    BY <1>2, FS_Subset
  <2> QED
    BY <2>1, FS_CardinalityType
<1>3. ASSUME NEW d \in Dispatchers, Claiming(d),
             \A e \in Dispatchers : e # d => dispatchers'[e] = dispatchers[e],
             ~(Pending(x)' \subseteq Pending(x))
      PROVE  Claimed(x) /\ Pending(x)' \subseteq Pending(x) \cup {d}
  <2>1. Pending(x)' \subseteq Pending(x) \cup {d}
    BY <1>3 DEF Pending
  <2>2. dispatchers'[d].claim.delivery = x
    BY <1>3, <2>1 DEF Pending
  <2> QED
    BY <1>3, <2>1, <2>2 DEF Claiming
<1>4. ASSUME NEW d \in Dispatchers, Claimed(x), Pending(x)' \subseteq Pending(x) \cup {d}
      PROVE  /\ IsFiniteSet(Pending(x)') /\ Cardinality(Pending(x)) \in Nat
             /\ Cardinality(Pending(x)') \in Nat
             /\ Cardinality(Pending(x)') <= Cardinality(Pending(x)) + 1
  <2> DEFINE more == Pending(x) \cup {d}
  <2>1. /\ IsFiniteSet(more)
        /\ Cardinality(more) = IF d \in Pending(x) THEN Cardinality(Pending(x))
                               ELSE Cardinality(Pending(x)) + 1
    BY FS_AddElement
  <2>2. IsFiniteSet(Pending(x)') /\ Cardinality(Pending(x)') <= Cardinality(more)
    BY <1>4, <2>1, FS_Subset
  <2>3. Cardinality(Pending(x)) \in Nat /\ Cardinality(Pending(x)') \in Nat
    BY <2>2, FS_CardinalityType
  <2> HIDE DEF more
  <2> QED
    BY <2>1, <2>2, <2>3
<1>5. CASE dispatchers' = dispatchers
  BY <1>2, <1>5 DEF Pending
<1>6. ASSUME NEW d \in Dispatchers, Moves(d), ~Claiming(d),
             \A e \in Dispatchers : e # d => dispatchers'[e] = dispatchers[e]
      PROVE  Pending(x)' \subseteq Pending(x)
  <2>1. ASSUME NEW e \in Pending(x)' PROVE e \in Pending(x)
    <3>1. CASE e = d
      BY <1>1, <1>6, <2>1, <3>1
    <3>2. CASE e # d
      BY <1>6, <2>1, <3>2 DEF Pending
    <3> QED
      BY <3>1, <3>2
  <2> QED
    BY <2>1
<1> QED
  BY <1>2, <1>3, <1>4, <1>5, <1>6 DEF DispatchersMove

\* A request that is made is one less to be made.
LEMMA PendingDelivered ==
    ASSUME TypeOK, NEW x \in Deliveries, IsFiniteSet(Pending(x)),
           NEW d \in Dispatchers, Delivering(d, x)
    PROVE  /\ IsFiniteSet(Pending(x)') /\ Cardinality(Pending(x)) \in Nat
           /\ Cardinality(Pending(x)') \in Nat
           /\ Cardinality(Pending(x)') + 1 <= Cardinality(Pending(x))
<1>1. d \in Pending(x) /\ Pending(x)' \subseteq Pending(x) \ {d}
  BY DEF Delivering, Pending
<1>2. /\ IsFiniteSet(Pending(x) \ {d})
      /\ Cardinality(Pending(x) \ {d}) = Cardinality(Pending(x)) - 1
  BY <1>1, FS_RemoveElement
<1>3. IsFiniteSet(Pending(x)') /\ Cardinality(Pending(x)') <= Cardinality(Pending(x) \ {d})
  BY <1>1, <1>2, FS_Subset
<1>4. Cardinality(Pending(x)) \in Nat /\ Cardinality(Pending(x)') \in Nat
  BY <1>3, FS_CardinalityType
<1> QED
  BY <1>2, <1>3, <1>4

\* Requests stay within the attempts that were counted, and those within what each manual
\* retry grants: claim, which counts before send, and retry.
LEMMA CountedStep ==
    ASSUME TypeOK, Outbox, Locks, Leases, Counted, [Next]_vars
    PROVE  Counted'
<1>1. DispatchersMove /\ RowsMove
  BY DispatchersStep, RowsStep
<1>2. ASSUME NEW x \in Deliveries
      PROVE  /\ IsFiniteSet(Pending(x)')
             /\ history'[x].sent + Cardinality(Pending(x)')
                    <= MaxAttempts * history'[x].retried + Granted(x)'
  <2> DEFINE j == x[1]
             n == Cardinality(Pending(x))
             m == Cardinality(Pending(x)')
             sent == history[x].sent
             retried == history[x].retried
             limit == MaxAttempts * retried
  <2>1. /\ IsFiniteSet(Pending(x)) /\ sent + n <= limit + Granted(x)
        /\ sent \in Nat /\ retried \in Nat /\ limit \in Nat
    BY LimitsAssumption DEF Counted, TypeOK
  <2>2. /\ j \in Jobs /\ x[2] \in Channels /\ x = <<j, x[2]>> /\ RowStep(x)
        /\ deliveries[x] \in DeliveryType /\ deliveries'[x] \in DeliveryType
    BY <1>1 DEF Deliveries, RowsMove, TypeOK
  <2>3. /\ JobStep(j)
        /\ jobs[j].status \in {"NONE", "PENDING", "DELETED"} => deliveries[x].status = "NONE"
        /\ deliveries[x].status = "NONE" => deliveries[x].attempts = 0
    BY <2>2, JobsStep DEF Outbox, Row
  <2>4. jobs[j].status = "DELETED" => jobs'[j].status = "DELETED"
    <3>1. \A d \in Dispatchers : j \in dispatchers[d].jobs => jobs[j].status = "PENDING"
      BY DEF Locks
    <3> QED
      BY <2>3, <3>1 DEF JobStep, JobWithdrawn
  <2>5. Granted(x) \in 0..MaxAttempts /\ Granted(x)' \in 0..MaxAttempts
    BY <2>2, LimitsAssumption DEF Granted, DeliveryType
  <2>6. ~Retried(x) => Granted(x)' >= Granted(x) + (IF Claimed(x) THEN 1 ELSE 0)
    <3>1. CASE jobs'[j].status = "DELETED"
      <4>1. Granted(x)' = MaxAttempts
        BY <3>1 DEF Granted
      <4>2. ~Claimed(x)
        BY <2>3, <3>1 DEF Claimed, JobKept, Unsettled
      <4> QED
        BY <2>5, <4>1, <4>2, LimitsAssumption
    <3>2. CASE jobs'[j].status # "DELETED"
      <4>1. Granted(x) = deliveries[x].attempts /\ Granted(x)' = deliveries'[x].attempts
        BY <2>4, <3>2 DEF Granted
      <4>2. deliveries[x].attempts \in Nat
        BY <2>2 DEF DeliveryType
      <4> QED
        BY <2>2, <2>3, <3>2, <4>1, <4>2
        DEF RowStep, Kept, Made, Claimed, Settled, Withdrawn, Removed
    <3> QED
      BY <3>1, <3>2
  <2>7. CASE history'[x] = history[x]
    <3>1. ~Retried(x)
      BY <2>1, <2>7 DEF Retried
    <3>2. /\ IsFiniteSet(Pending(x)') /\ n \in Nat /\ m \in Nat
          /\ m <= n + (IF Claimed(x) THEN 1 ELSE 0)
      BY <1>1, <2>1, PendingStep
    <3>3. Granted(x)' >= Granted(x) + (IF Claimed(x) THEN 1 ELSE 0)
      BY <2>6, <3>1
    <3>4. history'[x].sent = sent /\ MaxAttempts * history'[x].retried = limit
      BY <2>7
    <3> HIDE DEF n, m, sent, retried, limit
    <3>5. sent + m <= limit + Granted(x)'
      BY <2>1, <2>5, <3>2, <3>3
    <3> QED
      BY <3>2, <3>4, <3>5 DEF m
  <2>8. ASSUME history'[x].sent = sent + 1, history'[x].retried = retried,
               UNCHANGED <<jobs, deliveries>>, NEW d \in Dispatchers, Delivering(d, x)
        PROVE  /\ IsFiniteSet(Pending(x)')
               /\ history'[x].sent + Cardinality(Pending(x)')
                      <= MaxAttempts * history'[x].retried + Granted(x)'
    <3>1. IsFiniteSet(Pending(x)') /\ n \in Nat /\ m \in Nat /\ m + 1 <= n
      BY <2>1, <2>8, PendingDelivered
    <3>2. Granted(x)' = Granted(x)
      BY <2>8 DEF Granted
    <3>3. MaxAttempts * history'[x].retried = limit
      BY <2>8
    <3> HIDE DEF n, m, sent, retried, limit
    <3>4. (sent + 1) + m <= limit + Granted(x)
      BY <2>1, <2>5, <3>1
    <3> QED
      BY <2>8, <3>1, <3>2, <3>3, <3>4 DEF m
  <2>9. CASE Retried(x) /\ dispatchers' = dispatchers
    <3>1. Pending(x)' = Pending(x)
      BY <2>9 DEF Pending
    <3>2. /\ history'[x].sent = sent /\ history'[x].retried = retried + 1
          /\ deliveries[x].status = "FAILED" /\ deliveries'[x].attempts = 0
      BY <2>9 DEF Retried
    <3>3. MaxAttempts * history'[x].retried = limit + MaxAttempts
      BY <2>1, <3>2, LimitsAssumption
    <3>4. n \in Nat
      BY <2>1, FS_CardinalityType
    <3> HIDE DEF n, sent, retried, limit
    <3>5. sent + n <= (limit + MaxAttempts) + Granted(x)'
      BY <2>1, <2>5, <3>4, LimitsAssumption
    <3> QED
      BY <2>1, <3>1, <3>2, <3>3, <3>5 DEF n
  <2> QED
    BY <2>7, <2>8, <2>9, HistoryStep
<1> QED
  BY <1>2 DEF Counted

\* A channel that was created keeps its age.
LEMMA ChannelStep ==
    ASSUME TypeOK, [Next]_vars, NEW c \in Channels, Created(c)
    PROVE  channels'[c].created = channels[c].created
<1>1. CASE channels' = channels
  BY <1>1
<1>2. ASSUME NEW b \in Channels,
             CreateChannel(b) \/ \E enabled \in BOOLEAN : SetChannelEnabled(b, enabled)
      PROVE  channels'[c].created = channels[c].created
  BY <1>2 DEF CreateChannel, SetChannelEnabled, TypeOK
<1> QED
  BY <1>1, <1>2 DEF
      Next, vars, Routing, Sending, Operating, Passing, LockJobs, NothingToRoute, ReadRules,
      ReadChannels, Claim, CheckChannel, CancelClaimed, Deliver, FailToDeliver, Finish, Abort,
      CommitRouting, Enqueue, Withdraw, DeleteMonitor, CreateRule, SetRuleEnabled, Retry, Tick,
      Elapse, Expire

\* A rule that asked for an alert covers it as long as the monitor is there: createRule,
\* setRuleEnabled, deleteMonitor.
LEMMA CoversStep ==
    ASSUME TypeOK, [Next]_vars, NEW j \in Jobs, NEW c \in Channels, NEW r \in Rules,
           Covers(r, j, c), SameEvent(j), jobs'[j].status # "DELETED"
    PROVE  Covers(r, j, c)'
<1>1. /\ rules[r].status = "PRESENT" /\ c \in rules[r].channels
      /\ rules[r].created <= jobs[j].created /\ InScope(rules[r], jobs[j].monitor)
      /\ rules[r] \in RuleType
  BY DEF Covers, TypeOK
<1>2. ASSUME rules'[r].status = "PRESENT", rules'[r].channels = rules[r].channels,
             rules'[r].created = rules[r].created, InScope(rules'[r], jobs[j].monitor)
      PROVE  Covers(r, j, c)'
  BY <1>1, <1>2 DEF Covers, SameEvent, InScope
<1>3. CASE rules'[r] = rules[r]
  BY <1>1, <1>2, <1>3
<1>4. ASSUME NEW q \in Rules, \E config \in RuleConfigs : CreateRule(q, config)
      PROVE  rules'[r] = rules[r]
  BY <1>1, <1>4 DEF CreateRule, TypeOK
<1>5. ASSUME NEW q \in Rules, NEW enabled \in BOOLEAN, SetRuleEnabled(q, enabled)
      PROVE  Covers(r, j, c)'
  <2>1. rules'[r] = rules[r] \/ rules'[r] = [rules[r] EXCEPT !.enabled = enabled]
    BY <1>5 DEF SetRuleEnabled, TypeOK
  <2>2. CASE rules'[r] = [rules[r] EXCEPT !.enabled = enabled]
    <3>1. /\ rules'[r].status = rules[r].status /\ rules'[r].channels = rules[r].channels
          /\ rules'[r].created = rules[r].created /\ rules'[r].scope = rules[r].scope
      BY <1>1, <2>2 DEF RuleType
    <3> QED
      BY <1>1, <1>2, <3>1 DEF InScope
  <2> QED
    BY <1>3, <2>1, <2>2
<1>6. ASSUME NEW m \in Monitors, DeleteMonitor(m) PROVE Covers(r, j, c)'
  <2>1. jobs[j].monitor # m
    <3>1. SUFFICES ASSUME jobs[j].monitor = m PROVE FALSE
      OBVIOUS
    <3>2. jobs'[j] = [jobs[j] EXCEPT !.status = "DELETED"] /\ jobs[j] \in JobType
      BY <1>6, <3>1 DEF DeleteMonitor, OfMonitor, TypeOK
    <3> QED
      BY <3>2 DEF JobType
  <2>2. rules[r].scope # {m}
    BY <1>1, <2>1 DEF InScope
  <2>3. rules'[r] = [rules[r] EXCEPT !.scope = rules[r].scope \ {m}]
    BY <1>6, <2>2 DEF DeleteMonitor, Rescoped
  <2>4. /\ rules'[r].status = rules[r].status /\ rules'[r].channels = rules[r].channels
        /\ rules'[r].created = rules[r].created /\ rules'[r].scope = rules[r].scope \ {m}
    BY <1>1, <2>3 DEF RuleType
  <2> QED
    BY <1>1, <1>2, <2>1, <2>4 DEF InScope
<1> QED
  BY <1>3, <1>4, <1>5, <1>6 DEF
      Next, vars, Routing, Sending, Operating, Passing, LockJobs, NothingToRoute, ReadRules,
      ReadChannels, Claim, CheckChannel, CancelClaimed, Deliver, FailToDeliver, Finish, Abort,
      CommitRouting, Enqueue, Withdraw, CreateChannel, SetChannelEnabled, Retry, Tick, Elapse,
      Expire

\* What a dispatcher read without locks stays good for the jobs it has locked: routePending
\* against the operators, who cannot delete the monitor of a locked job.
LEMMA SnapshotsStep ==
    ASSUME TypeOK, Configured, Outbox, Locks, Leases, Snapshots, [Next]_vars
    PROVE  Snapshots'
<1>1. DispatchersMove
  BY DispatchersStep
<1>2. \A c \in Channels : Created(c) => Created(c)'
  BY ChannelStep DEF Created
<1>3. ASSUME NEW d \in Dispatchers, dispatchers'[d] = dispatchers[d]
      PROVE  /\ \A c \in dispatchers'[d].channels : Created(c)'
             /\ \A j \in dispatchers'[d].jobs, c \in Channels :
                    \A rule \in dispatchers'[d].rules :
                        Asks(rule, jobs'[j]) /\ c \in rule.channels =>
                            \E r \in Rules : Covers(r, j, c)'
  <2>1. \A c \in dispatchers'[d].channels : Created(c)'
    BY <1>2, <1>3 DEF Snapshots, TypeOK, DispatcherType
  <2>2. ASSUME NEW j \in dispatchers'[d].jobs, NEW c \in Channels,
               NEW rule \in dispatchers'[d].rules, Asks(rule, jobs'[j]), c \in rule.channels
        PROVE  \E r \in Rules : Covers(r, j, c)'
    <3>1. j \in Jobs /\ j \in dispatchers[d].jobs /\ j \in Locked /\ rule \in dispatchers[d].rules
      BY <1>3 DEF TypeOK, DispatcherType, Locked
    <3>2. jobs[j].status = "PENDING" /\ jobs'[j].status = "PENDING"
      BY <1>3, <3>1, LocksStep DEF Locks
    <3>3. jobs'[j] = jobs[j]
      BY <3>1, <3>2, JobsStep DEF JobStep, JobWithdrawn
    <3>4. Asks(rule, jobs[j])
      BY <2>2, <3>3
    <3>5. PICK r \in Rules : Covers(r, j, c)
      BY <2>2, <3>1, <3>4 DEF Snapshots
    <3>6. SameEvent(j) /\ jobs'[j].status # "DELETED"
      BY <3>2, <3>3 DEF SameEvent
    <3>7. Covers(r, j, c)'
      BY <3>1, <3>5, <3>6, CoversStep
    <3> QED
      BY <3>7
  <2> QED
    BY <2>1, <2>2
<1>4. ASSUME NEW d \in Dispatchers, Moves(d)
      PROVE  /\ \A c \in dispatchers'[d].channels : Created(c)'
             /\ \A j \in dispatchers'[d].jobs, c \in Channels :
                    \A rule \in dispatchers'[d].rules :
                        Asks(rule, jobs'[j]) /\ c \in rule.channels =>
                            \E r \in Rules : Covers(r, j, c)'
  <2>1. CASE Rests(d)
    BY <2>1, PointTyped DEF Rests
  <2>2. CASE Locking(d)
    BY <2>2 DEF Locking, At
  <2>3. CASE Claiming(d)
    BY <2>3 DEF Claiming
  <2>4. CASE GoingOn(d)
    <3>1. dispatchers'[d].jobs = {} /\ dispatchers'[d].channels = dispatchers[d].channels
      BY <2>4 DEF GoingOn, Locks, SendingPoints
    <3> QED
      BY <1>2, <3>1 DEF Snapshots, TypeOK, DispatcherType
  <2>5. CASE Reading(d)
    <3>1. UNCHANGED <<jobs, rules, channels>> /\ dispatchers'[d].jobs = dispatchers[d].jobs
      BY <2>5 DEF Reading
    <3>2. \A c \in dispatchers'[d].channels : c \in Channels /\ Created(c)
      BY <2>5 DEF Reading, Snapshots, Configured, TypeOK, DispatcherType
    <3>3. ASSUME NEW j \in dispatchers[d].jobs, NEW c \in Channels,
                 NEW rule \in dispatchers'[d].rules, Asks(rule, jobs[j]), c \in rule.channels
          PROVE  \E r \in Rules : Covers(r, j, c)
      <4>1. CASE rule \in dispatchers[d].rules
        BY <3>3, <4>1 DEF Snapshots
      <4>2. CASE rule \in {rules[r] : r \in {r \in Rules : rules[r].enabled}}
        <5>1. PICK r \in Rules : rule = rules[r] /\ rules[r].enabled
          BY <4>2
        <5> QED
          BY <3>3, <5>1 DEF Configured, Covers, Asks
      <4> QED
        BY <2>5, <4>1, <4>2 DEF Reading
    <3>4. \A r \in Rules, j \in Jobs, c \in Channels : Covers(r, j, c) => Covers(r, j, c)'
      BY <3>1 DEF Covers, InScope
    <3>5. \A j \in dispatchers[d].jobs : j \in Jobs
      BY DEF TypeOK, DispatcherType
    <3> QED
      BY <1>2, <3>1, <3>2, <3>3, <3>4, <3>5
  <2> QED
    BY <1>4, <2>1, <2>2, <2>3, <2>4, <2>5 DEF Moves
<1>5. ASSUME NEW d \in Dispatchers
      PROVE  /\ \A c \in dispatchers'[d].channels : Created(c)'
             /\ \A j \in dispatchers'[d].jobs, c \in Channels :
                    \A rule \in dispatchers'[d].rules :
                        Asks(rule, jobs'[j]) /\ c \in rule.channels =>
                            \E r \in Rules : Covers(r, j, c)'
  <2>1. dispatchers'[d] = dispatchers[d] \/ Moves(d)
    BY <1>1 DEF DispatchersMove
  <2> QED
    BY <1>3, <1>4, <2>1
<1> QED
  BY <1>5 DEF Snapshots, Asks, InScope

\* A delivery is made for what was there before its event, and stays so: routePending.
LEMMA GroundedStep ==
    ASSUME TypeOK, Outbox, Locks, Leases, Snapshots, Grounded, [Next]_vars
    PROVE  Grounded'
<1>1. RowsMove /\ Outbox'
  BY RowsStep, OutboxStep
<1>2. ASSUME NEW j \in Jobs, NEW c \in Channels, deliveries'[<<j, c>>].status # "NONE"
      PROVE  /\ Created(c)' /\ channels'[c].created <= jobs'[j].created
             /\ \E r \in Rules : Covers(r, j, c)'
  <2> DEFINE x == <<j, c>>
  <2>1. x \in Deliveries /\ x[1] = j /\ x[2] = c /\ RowStep(x) /\ JobStep(j)
    BY <1>1, JobsStep DEF Deliveries, RowsMove
  <2>2. jobs'[j].status # "DELETED"
    BY <1>1, <1>2 DEF Outbox, Row
  <2>3. ASSUME Created(c), channels[c].created <= jobs[j].created, jobs[j].status # "NONE",
               NEW r \in Rules, Covers(r, j, c)
        PROVE  /\ Created(c)' /\ channels'[c].created <= jobs'[j].created
               /\ \E q \in Rules : Covers(q, j, c)'
    <3>1. SameEvent(j)
      BY <2>1, <2>3 DEF JobStep, SameEvent
    <3>2. channels'[c].created = channels[c].created
      BY <2>3, ChannelStep
    <3>3. Covers(r, j, c)'
      BY <2>2, <2>3, <3>1, CoversStep
    <3> QED
      BY <2>3, <3>1, <3>2, <3>3 DEF SameEvent, Created
  <2>4. CASE deliveries[x].status # "NONE"
    <3>1. jobs[j].status # "NONE"
      BY <2>4 DEF Outbox, Row
    <3> QED
      BY <2>3, <2>4, <3>1 DEF Grounded, Row
  <2>5. CASE deliveries[x].status = "NONE"
    <3>1. Made(x)
      <4> HIDE DEF x
      <4>1. deliveries'[x].status # "NONE"
        BY <1>2 DEF x
      <4> QED
        BY <2>1, <2>5, <4>1
        DEF RowStep, Kept, Claimed, Settled, Withdrawn, Retried, Removed, Unsettled
    <3>2. PICK d \in Dispatchers : j \in dispatchers[d].jobs /\ c \in Targets(d, j)
      BY <2>1, <3>1 DEF Made
    <3>3. PICK rule \in dispatchers[d].rules : Asks(rule, jobs[j]) /\ c \in rule.channels
      BY <3>2 DEF Targets
    <3>4. c \in dispatchers[d].channels /\ channels[c].created <= jobs[j].created
      BY <3>2 DEF Targets
    <3>5. Created(c) /\ (\E r \in Rules : Covers(r, j, c)) /\ jobs[j].status = "PENDING"
      BY <3>2, <3>3, <3>4 DEF Snapshots, Locks
    <3> QED
      BY <2>3, <3>4, <3>5
  <2> QED
    BY <2>4, <2>5
<1> QED
  BY <1>2 DEF Grounded, Row

-----------------------------------------------------------------------------
(****************************** the theorems *******************************)

\* The tables are empty at first, and every dispatcher is at the start of its loop.
LEMMA InvInit == Init => Inv
<1> SUFFICES ASSUME Init PROVE Inv
  OBVIOUS
<1>1. 0 \in 0..MaxTime /\ 1 \in 1..MaxTime /\ 0 \in 0..MaxAttempts
  BY LimitsAssumption
<1>2. /\ NoJob \in JobType /\ NoRule \in RuleType /\ NoDelivery \in DeliveryType
      /\ NoChannel \in [enabled : BOOLEAN, created : 0..MaxTime]
  BY <1>1 DEF NoJob, NoRule, NoDelivery, NoChannel, JobType, RuleType, DeliveryType
<1>3. \A d \in Dispatchers : /\ dispatchers[d] = At("ROUTE") /\ At("ROUTE") \in DispatcherType
                             /\ dispatchers[d].pc = "ROUTE" /\ dispatchers[d].jobs = {}
                             /\ dispatchers[d].channels = {} /\ dispatchers[d].claim = NoClaim
  BY PointTyped DEF Init
<1>4. TypeOK
  <2>1. /\ jobs \in [Jobs -> JobType] /\ rules \in [Rules -> RuleType]
        /\ channels \in [Channels -> [enabled : BOOLEAN, created : 0..MaxTime]]
        /\ deliveries \in [Deliveries -> DeliveryType]
    BY <1>2 DEF Init
  <2>2. dispatchers \in [Dispatchers -> DispatcherType]
    BY <1>3 DEF Init
  <2>3. history \in [Deliveries -> [sent : Nat, retried : Nat]]
    BY DEF Init
  <2>4. \A x \in Deliveries : deliveries[x].status = "NONE"
    BY DEF Init, NoDelivery
  <2> QED
    BY <1>1, <2>1, <2>2, <2>3, <2>4 DEF Init, TypeOK
<1>5. Configured
  BY DEF Init, Configured, NoRule, NoChannel
<1>6. Outbox /\ Grounded
  <2>1. \A j \in Jobs, c \in Channels : Row(j, c).status = "NONE" /\ Row(j, c).attempts = 0
    BY DEF Init, Row, Deliveries, NoDelivery
  <2>2. \A j \in Jobs : jobs[j].status = "NONE" /\ jobs[j].monitor = None
    BY DEF Init, NoJob
  <2> QED
    BY <2>1, <2>2 DEF Outbox, Grounded
<1>7. Locks /\ Snapshots
  BY <1>3 DEF Locks, Snapshots
<1>8. Leases
  BY <1>3 DEF Init, Leases, Leased, SendingPoints, NoDelivery
<1>9. Counted
  <2>1. ASSUME NEW x \in Deliveries
        PROVE  /\ IsFiniteSet(Pending(x))
               /\ history[x].sent + Cardinality(Pending(x))
                      <= MaxAttempts * history[x].retried + Granted(x)
    <3>1. Pending(x) = {} /\ IsFiniteSet({}) /\ Cardinality({}) = 0
      BY <1>3, FS_EmptySet DEF Pending
    <3>2. history[x].sent = 0 /\ history[x].retried = 0 /\ Granted(x) = 0
      BY DEF Init, Granted, NoDelivery, NoJob, Deliveries
    <3> QED
      BY <3>1, <3>2, LimitsAssumption
  <2> QED
    BY <2>1 DEF Counted
<1> QED
  BY <1>4, <1>5, <1>6, <1>7, <1>8, <1>9 DEF Inv

\* Every step keeps the invariant.
LEMMA InvStep == Inv /\ [Next]_vars => Inv'
BY TypeStep, ConfiguredStep, OutboxStep, LocksStep, LeasesStep, CountedStep, SnapshotsStep,
   GroundedStep DEF Inv

\* The invariant holds throughout.
LEMMA Invariant == Spec => []Inv
BY InvInit, InvStep, PTL DEF Spec

\* Types, never more than MaxAttempts attempts, and no delivery that is stranded: what is
\* still to be sent has an attempt left, what was given up has none (claim, finish, retry).
THEOREM TypeCorrect == Spec => []TypeOK
BY Invariant, PTL DEF Inv

\* New rules and channels do not replay old alerts, although routePending reads them without
\* locks, after it has locked the jobs.
THEOREM NothingIsReplayed == Spec => []NoReplay
<1>1. Inv => NoReplay
  BY DEF Inv, Grounded, Covers, Row, NoReplay
<1> QED
  BY <1>1, Invariant, PTL

\* A withdrawn alert stays silent: no dispatcher that routed or sent it during the edit
\* brings it back (updateMonitor, which waits for the locks of routePending).
THEOREM WithdrawnIsSilent == Spec => WithdrawnStaysSilent
<1>1. ASSUME Inv, Inv', [Next]_vars, NEW j \in Jobs, jobs[j].status = "CANCELLED"
      PROVE  /\ jobs'[j].status \in {"CANCELLED", "DELETED"}
             /\ \A c \in Channels :
                    deliveries'[<<j, c>>].status \in {"NONE", "SENT", "CANCELLED"}
  <2>1. \A d \in Dispatchers : j \notin dispatchers[d].jobs
    BY <1>1 DEF Inv, Locks
  <2>2. jobs'[j].status \in {"CANCELLED", "DELETED"}
    BY <1>1, <2>1, JobsStep DEF Inv, JobStep, JobWithdrawn
  <2> QED
    BY <1>1, <2>2 DEF Inv, Outbox, Row
<1>2. ASSUME Inv, Inv', [Next]_vars
      PROVE  [\A j \in Jobs : jobs[j].status = "CANCELLED" =>
                 /\ jobs'[j].status \in {"CANCELLED", "DELETED"}
                 /\ \A c \in Channels :
                        deliveries'[<<j, c>>].status \in {"NONE", "SENT", "CANCELLED"}]_vars
  BY <1>1, <1>2
<1> QED
  BY <1>2, Invariant, PTL DEF Spec, WithdrawnStaysSilent

-----------------------------------------------------------------------------
(***************************** the refinement ******************************)

LifeFate == [x \in Deliveries |-> Fate(x)]
LifeSent == [x \in Deliveries |-> history[x].sent]
LifeRetried == [x \in Deliveries |-> history[x].retried]

\* Who may still make a request may make one more: deliver, under the attempts that claim
\* counted.
LEMMA RequestIsGranted ==
    ASSUME Inv, NEW x \in Deliveries, NEW d \in Dispatchers, Delivering(d, x)
    PROVE  history[x].sent < MaxAttempts * (1 + history[x].retried)
<1> DEFINE n == Cardinality(Pending(x))
           sent == history[x].sent
           limit == MaxAttempts * history[x].retried
<1>1. /\ IsFiniteSet(Pending(x)) /\ sent + n <= limit + Granted(x)
      /\ sent \in Nat /\ history[x].retried \in Nat /\ limit \in Nat
  BY LimitsAssumption DEF Inv, Counted, TypeOK
<1>2. d \in Pending(x)
  BY DEF Delivering, Pending
<1>3. n \in Nat /\ n # 0
  BY <1>1, <1>2, FS_CardinalityType, FS_EmptySet
<1>4. Granted(x) \in 0..MaxAttempts
  BY LimitsAssumption DEF Granted, Inv, TypeOK, DeliveryType
<1>5. MaxAttempts * (1 + history[x].retried) = limit + MaxAttempts
  BY <1>1, LimitsAssumption
<1> HIDE DEF n, sent, limit
<1>6. sent < limit + MaxAttempts
  BY <1>1, <1>3, <1>4, LimitsAssumption
<1> QED
  BY <1>5, <1>6 DEF sent

\* Each delivery makes a step of DeliveryLife, or none, in every step.
LEMMA LifeOfOne ==
    ASSUME Inv, Inv', [Next]_vars, NEW x \in Deliveries
    PROVE  \/ Life!Create(x) \/ Life!Request(x) \/ Life!Settle(x) \/ Life!Retry(x)
           \/ Life!Delete(x) \/ Life!Stay(x)
<1>1. /\ RowStep(x) /\ JobStep(x[1])
      /\ x[1] \in Jobs /\ x[2] \in Channels /\ x = <<x[1], x[2]>>
      /\ deliveries[x] \in DeliveryType /\ deliveries'[x] \in DeliveryType
  BY RowsStep, JobsStep DEF Inv, RowsMove, Deliveries, TypeOK
<1>2. /\ jobs[x[1]].status \in {"NONE", "PENDING", "DELETED"} => deliveries[x].status = "NONE"
      /\ jobs'[x[1]].status \in {"NONE", "PENDING", "DELETED"} => deliveries'[x].status = "NONE"
  BY <1>1 DEF Inv, Outbox, Row
<1>3. jobs[x[1]].status = "DELETED" => jobs'[x[1]].status = "DELETED"
  <2>1. \A d \in Dispatchers : x[1] \in dispatchers[d].jobs => jobs[x[1]].status = "PENDING"
    BY DEF Inv, Locks
  <2> QED
    BY <1>1, <2>1 DEF JobStep, JobWithdrawn
<1>4. /\ LifeFate[x] = Fate(x) /\ LifeFate'[x] = Fate(x)'
      /\ LifeSent[x] = history[x].sent /\ LifeSent'[x] = history'[x].sent
      /\ LifeRetried[x] = history[x].retried /\ LifeRetried'[x] = history'[x].retried
  BY DEF LifeFate, LifeSent, LifeRetried
<1>5. CASE history'[x] = history[x]
  <2>0. LifeSent'[x] = LifeSent[x] /\ LifeRetried'[x] = LifeRetried[x]
    BY <1>4, <1>5
  <2>1. CASE Kept(x)
    <3>1. jobs'[x[1]].status = "DELETED" => jobs[x[1]].status = "DELETED"
      BY <2>1 DEF Kept, JobKept, JobWithdrawn
    <3>2. Fate(x)' = Fate(x)
      BY <1>3, <2>1, <3>1 DEF Kept, Fate, Unsettled
    <3> QED
      BY <1>4, <2>0, <3>2 DEF Life!Stay, LifeFate, LifeSent, LifeRetried
  <2>2. CASE Made(x)
    <3>1. Fate(x) = "NONE" /\ Fate(x)' = "WAITING"
      BY <1>2, <2>2 DEF Made, Fate, Unsettled
    <3> QED
      BY <1>4, <2>0, <3>1 DEF Life!Create, Life!Becomes, LifeFate, LifeSent, LifeRetried
  <2>3. CASE Claimed(x)
    <3>1. Fate(x) = "WAITING" /\ Fate(x)' = "WAITING"
      BY <1>2, <2>3 DEF Claimed, Fate, Unsettled, JobKept
    <3> QED
      BY <1>4, <2>0, <3>1 DEF Life!Stay, LifeFate, LifeSent, LifeRetried
  <2>4. CASE Settled(x)
    <3>1. Fate(x) = "WAITING"
      BY <1>2, <2>4 DEF Settled, Fate, Unsettled
    <3>2. \/ Fate(x)' \in {"WAITING", "FAILED", "CANCELLED"}
          \/ Fate(x)' = "SENT" /\ history[x].sent > 0
      BY <1>2, <2>4 DEF Settled, Fate, Unsettled, JobKept, JobWithdrawn
    <3>3. CASE Fate(x)' = "WAITING"
      BY <1>4, <2>0, <3>1, <3>3 DEF Life!Stay, LifeFate, LifeSent, LifeRetried
    <3>4. CASE Fate(x)' # "WAITING"
      BY <1>4, <2>0, <3>1, <3>2, <3>4
      DEF Life!Settle, Life!Becomes, LifeFate, LifeSent, LifeRetried
    <3> QED
      BY <3>3, <3>4
  <2>5. CASE Withdrawn(x)
    <3>1. Fate(x) = "FAILED" /\ Fate(x)' = "CANCELLED"
      BY <1>2, <2>5 DEF Withdrawn, Fate, Unsettled, JobWithdrawn
    <3> QED
      BY <1>4, <2>0, <3>1 DEF Life!Settle, Life!Becomes, LifeFate, LifeSent, LifeRetried
  <2>6. CASE Removed(x)
    <3>1. Fate(x)' = "GONE"
      BY <2>6 DEF Removed, Fate
    <3> QED
      BY <1>4, <2>0, <3>1 DEF Life!Delete, LifeFate, LifeSent, LifeRetried
  <2>7. ~Retried(x)
    <3>1. history[x].retried \in Nat
      BY DEF Inv, TypeOK
    <3> QED
      BY <1>5, <3>1 DEF Retried
  <2> QED
    BY <1>1, <2>1, <2>2, <2>3, <2>4, <2>5, <2>6, <2>7 DEF RowStep
<1>6. ASSUME history'[x].sent = history[x].sent + 1, history'[x].retried = history[x].retried,
             UNCHANGED <<jobs, deliveries>>, NEW d \in Dispatchers, Delivering(d, x)
      PROVE  Life!Request(x)
  <2>1. Fate(x)' = Fate(x)
    BY <1>6 DEF Fate, Unsettled
  <2>2. deliveries[x].status # "NONE" \/ jobs[x[1]].status = "DELETED"
    BY <1>6 DEF Delivering, Inv, Leases, Leased, SendingPoints
  <2>3. Fate(x) # "NONE"
    BY <2>2 DEF Fate, Unsettled
  <2>4. LifeSent[x] < MaxAttempts * (1 + LifeRetried[x])
    BY <1>4, <1>6, RequestIsGranted
  <2> QED
    BY <1>4, <1>6, <2>1, <2>3, <2>4 DEF Life!Request, LifeFate, LifeSent, LifeRetried
<1>7. CASE Retried(x)
  <2>1. Fate(x) = "FAILED" /\ Fate(x)' = "WAITING"
    BY <1>2, <1>7 DEF Retried, Fate, Unsettled, JobKept
  <2> QED
    BY <1>4, <1>7, <2>1 DEF Retried, Life!Retry, Life!Becomes, LifeFate, LifeSent, LifeRetried
<1> QED
  BY <1>5, <1>6, <1>7, HistoryStep DEF Inv

\* Notifications implements DeliveryLife: although dispatchers die, leases expire and a late
\* dispatcher may still be sending, a channel gets at most MaxAttempts requests and as many
\* again for each retry, SENT means that one was received, and what was sent or cancelled is
\* never rewritten (claim, send, finish, retry, setEnabled, updateMonitor, deleteMonitor).
THEOREM NotificationsImplementLife == Spec => ImplementsLife
<1>1. Init => Life!Init
  <2>1. ASSUME Init, NEW x \in Deliveries
        PROVE  Fate(x) = "NONE" /\ history[x].sent = 0 /\ history[x].retried = 0
    BY <2>1 DEF Init, Fate, Unsettled, NoDelivery, NoJob, Deliveries
  <2> QED
    BY <2>1 DEF Life!Init
<1>2. Inv /\ Inv' /\ [Next]_vars => [Life!Next]_(Life!vars)
  BY LifeOfOne DEF Life!Next
<1> QED
  BY <1>1, <1>2, Invariant, PTL DEF Spec, ImplementsLife, Life!Spec
=============================================================================
