---------------------------- MODULE Notifications ----------------------------
(***************************************************************************)
(* Alert routing and delivery: Notifications                               *)
(* (packages/notifications/src/service.ts).  Each dispatcher loops over    *)
(* routePending, claim and send.  routePending is one transaction that     *)
(* locks jobs and then reads rules and channels WITHOUT locks, under       *)
(* READ COMMITTED, so its reads are steps of their own; claim, finish and  *)
(* every operation of the API is one atomic step.  Sending happens outside *)
(* any transaction, under a lease.                                         *)
(*                                                                         *)
(* Time.  A clock orders the creation of rules, channels and events, which *)
(* is all that routing compares.  The delay before a retry and the lease   *)
(* of 45 s are compared with nothing but the present, so each is a flag    *)
(* that Elapse and Expire flip at any later moment.                        *)
(***************************************************************************)
EXTENDS Naturals, FiniteSets

CONSTANTS
    Monitors, Jobs, Rules, Channels,   \* ids of rows
    Dispatchers, Tokens,               \* processes, lease tokens
    None,                              \* SQL NULL
    Types,          \* types of the events that alert
    RuleConfigs,    \* rule configurations: event types, channels, and the monitors in scope
    BatchSize,      \* jobs locked by one routePending, 25 in the code
    MaxAttempts,    \* attempts of a delivery, 5 in the code
    MaxTime,        \* bound: the clock stops here
    MaxRetries      \* bound: manual retries of a delivery

ASSUME IdsAssumption == None \notin Tokens \cup Monitors
ASSUME RuleConfigsAssumption ==
    RuleConfigs \subseteq [types : SUBSET Types, channels : SUBSET Channels,
                           scope : SUBSET Monitors]
ASSUME LimitsAssumption ==
    /\ BatchSize \in Nat \ {0} /\ MaxAttempts \in Nat \ {0}
    /\ MaxTime \in Nat \ {0} /\ MaxRetries \in Nat

VARIABLES
    now,          \* the database clock
    deleted,      \* monitors that are no more
    jobs,         \* table notification_jobs
    rules,        \* table alert_rules
    channels,     \* table notification_channels
    deliveries,   \* table notification_deliveries, by its unique key (job, channel)
    dispatchers,  \* what each process is doing
    history       \* history: requests that reached the provider, manual retries

vars == <<now, deleted, jobs, rules, channels, deliveries, dispatchers, history>>

Deliveries == Jobs \X Channels

(******************************** init *************************************)

NoJob      == [status |-> "NONE", monitor |-> None, type |-> None, created |-> 0]
NoRule     == [status |-> "NONE", enabled |-> FALSE, types |-> {}, channels |-> {},
               scope |-> {}, created |-> 0]
NoChannel  == [enabled |-> FALSE, created |-> 0]
NoDelivery == [status |-> "NONE", attempts |-> 0, due |-> FALSE, token |-> None, live |-> FALSE]
NoClaim    == [delivery |-> None, token |-> None, attempts |-> 0, failed |-> FALSE]

\* A dispatcher at the given point of its loop that holds nothing.
At(pc) == [pc |-> pc, jobs |-> {}, rules |-> {}, channels |-> {}, claim |-> NoClaim]

Init ==
    /\ now = 1
    /\ deleted = {}
    /\ jobs = [j \in Jobs |-> NoJob]
    /\ rules = [r \in Rules |-> NoRule]
    /\ channels = [c \in Channels |-> NoChannel]
    /\ deliveries = [x \in Deliveries |-> NoDelivery]
    /\ dispatchers = [d \in Dispatchers |-> At("ROUTE")]
    /\ history = [x \in Deliveries |-> [sent |-> 0, retried |-> 0]]

Created(c) == channels[c].created > 0

OfMonitor(m) == {j \in Jobs : jobs[j].monitor = m}

\* The row locks a routing transaction holds.
Locked == UNION {dispatchers[d].jobs : d \in Dispatchers}

Move(d, state) == dispatchers' = [dispatchers EXCEPT ![d] = state]

(***************************************************************************)
(* The outbox.  Repository.complete inserts the job of an event, with the  *)
(* time it read at the start of its transaction.                           *)
(***************************************************************************)
Enqueue(j, m, type, at) ==
    /\ jobs[j].status = "NONE"
    /\ m \notin deleted
    /\ jobs' = [jobs EXCEPT ![j] =
           [status |-> "PENDING", monitor |-> m, type |-> type, created |-> at]]
    /\ UNCHANGED <<now, deleted, rules, channels, deliveries, dispatchers, history>>

(***************************************************************************)
(* Notifications.routePending                                              *)
(***************************************************************************)
\* FOR UPDATE SKIP LOCKED: jobs another dispatcher is routing are passed over.
Free == {j \in Jobs : jobs[j].status = "PENDING"} \ Locked

LockJobs(d) ==
    /\ dispatchers[d].pc = "ROUTE"
    /\ \E batch \in SUBSET Free \ {{}} :
           /\ Cardinality(batch) <= BatchSize
           /\ Move(d, [At("RULES") EXCEPT !.jobs = batch])
    /\ UNCHANGED <<now, deleted, jobs, rules, channels, deliveries, history>>

NothingToRoute(d) ==
    /\ dispatchers[d].pc = "ROUTE"
    /\ Free = {}
    /\ Move(d, At("CLAIM"))
    /\ UNCHANGED <<now, deleted, jobs, rules, channels, deliveries, history>>

ReadRules(d) ==
    /\ dispatchers[d].pc = "RULES"
    /\ Move(d, [dispatchers[d] EXCEPT !.pc = "CHANNELS",
                  !.rules = {rules[r] : r \in {r \in Rules : rules[r].enabled}}])
    /\ UNCHANGED <<now, deleted, jobs, rules, channels, deliveries, history>>

ReadChannels(d) ==
    /\ dispatchers[d].pc = "CHANNELS"
    /\ Move(d, [dispatchers[d] EXCEPT !.pc = "INSERT",
                  !.channels = {c \in Channels : channels[c].enabled}])
    /\ UNCHANGED <<now, deleted, jobs, rules, channels, deliveries, history>>

InScope(rule, m) == rule.scope = {} \/ m \in rule.scope

\* Mutant of Asks: a new rule replays old alerts.
AsksEvenOld(rule, job) == job.type \in rule.types /\ InScope(rule, job.monitor)

Asks(rule, job) ==
    /\ rule.created <= job.created
    /\ job.type \in rule.types
    /\ InScope(rule, job.monitor)

\* The channels that get a delivery for the job.
Targets(d, j) ==
    {c \in dispatchers[d].channels :
        /\ channels[c].created <= jobs[j].created
        /\ \E rule \in dispatchers[d].rules : Asks(rule, jobs[j]) /\ c \in rule.channels}

Routed(d, j) == IF Targets(d, j) = {} THEN "IGNORED" ELSE "ROUTED"

CommitRouting(d) ==
    LET batch == dispatchers[d].jobs
    IN
    /\ dispatchers[d].pc = "INSERT"
    /\ deliveries' = [x \in Deliveries |->
           IF x[1] \in batch /\ x[2] \in Targets(d, x[1])
           THEN [NoDelivery EXCEPT !.status = "PENDING", !.due = TRUE]
           ELSE deliveries[x]]
    /\ jobs' = [j \in Jobs |-> IF j \in batch
                               THEN [jobs[j] EXCEPT !.status = Routed(d, j)] ELSE jobs[j]]
    /\ Move(d, At("CLAIM"))
    /\ UNCHANGED <<now, deleted, rules, channels, history>>

(***************************************************************************)
(* Notifications.claim                                                     *)
(***************************************************************************)
\* Mutant of Exhausted: the last attempt is not counted.
ExhaustedTooLate(x) ==
    LET row == deliveries[x]
    IN  row.status = "PROCESSING" /\ row.attempts > MaxAttempts /\ ~row.live

\* The last attempt was interrupted: nobody else will end it.
Exhausted(x) ==
    LET row == deliveries[x]
    IN  row.status = "PROCESSING" /\ row.attempts >= MaxAttempts /\ ~row.live

Claimable(x) ==
    LET row == deliveries[x]
    IN  /\ row.attempts < MaxAttempts /\ row.due
        /\ row.status = "PENDING" \/ (row.status = "PROCESSING" /\ ~row.live)

\* randomUUID: a token that no row and no process remembers; which one is all the same.
FreshTokens ==
    Tokens \ ({deliveries[x].token : x \in Deliveries}
                \cup {dispatchers[d].claim.token : d \in Dispatchers})
NewToken == CHOOSE token \in FreshTokens : TRUE

GivenUp ==
    [x \in Deliveries |-> IF Exhausted(x)
                          THEN [deliveries[x] EXCEPT !.status = "FAILED", !.token = None]
                          ELSE deliveries[x]]

Claim(d) ==
    /\ dispatchers[d].pc = "CLAIM"
    /\ \/ /\ \A x \in Deliveries : ~Claimable(x)
          /\ deliveries' = GivenUp
          /\ Move(d, At("ROUTE"))
       \/ \E x \in Deliveries :
              /\ Claimable(x)
              /\ FreshTokens # {}
              /\ deliveries' = [GivenUp EXCEPT
                     ![x].status = "PROCESSING", ![x].attempts = @ + 1,
                     ![x].token = NewToken, ![x].live = TRUE]
              /\ Move(d, [At("CHECK") EXCEPT !.claim =
                     [delivery |-> x, token |-> NewToken,
                      attempts |-> deliveries[x].attempts + 1, failed |-> FALSE]])
    /\ UNCHANGED <<now, deleted, jobs, rules, channels, history>>

(***************************************************************************)
(* Notifications.send and finish                                           *)
(***************************************************************************)
\* The row is still leased to this claim.
Owned(claim) ==
    LET row == deliveries[claim.delivery]
    IN  row.status = "PROCESSING" /\ row.token = claim.token /\ row.live

CheckChannel(d) ==
    LET claim == dispatchers[d].claim
    IN
    /\ dispatchers[d].pc = "CHECK"
    /\ \/ ~Owned(claim) /\ Move(d, At("ROUTE"))
       \/ /\ Owned(claim)
          /\ Move(d, [dispatchers[d] EXCEPT
                 !.pc = IF channels[claim.delivery[2]].enabled THEN "DELIVER" ELSE "CANCEL"])
    /\ UNCHANGED <<now, deleted, jobs, rules, channels, deliveries, history>>

\* Mutant of Ours: a delivery is cancelled by its id alone.
OursById(claim) == deliveries[claim.delivery].status # "NONE"

Ours(claim) == deliveries[claim.delivery].token = claim.token

CancelClaimed(d) ==
    LET claim == dispatchers[d].claim
        x     == claim.delivery
    IN
    /\ dispatchers[d].pc = "CANCEL"
    /\ deliveries' = IF Ours(claim)
                     THEN [deliveries EXCEPT ![x].status = "CANCELLED",
                                             ![x].token = None, ![x].live = FALSE]
                     ELSE deliveries
    /\ Move(d, At("ROUTE"))
    /\ UNCHANGED <<now, deleted, jobs, rules, channels, history>>

\* deliver(): the provider may have received a request that failed for the dispatcher,
\* as a timeout; a request that succeeded was received.
Deliver(d) ==
    /\ dispatchers[d].pc = "DELIVER"
    /\ \E failed \in BOOLEAN, received \in BOOLEAN :
           /\ ~failed => received
           /\ Move(d, [dispatchers[d] EXCEPT !.pc = "FINISH", !.claim.failed = failed])
           /\ history' = IF received
                         THEN [history EXCEPT ![dispatchers[d].claim.delivery].sent = @ + 1]
                         ELSE history
    /\ UNCHANGED <<now, deleted, jobs, rules, channels, deliveries>>

\* A database error on the way to the provider counts as a failed attempt.
FailToDeliver(d) ==
    /\ dispatchers[d].pc \in {"CHECK", "CANCEL"}
    /\ Move(d, [dispatchers[d] EXCEPT !.pc = "FINISH", !.claim.failed = TRUE])
    /\ UNCHANGED <<now, deleted, jobs, rules, channels, deliveries, history>>

\* Mutant of Verdict: one attempt too many.
VerdictTooLate(claim) ==
    IF ~claim.failed THEN "SENT"
    ELSE IF claim.attempts > MaxAttempts THEN "FAILED" ELSE "PENDING"

Verdict(claim) ==
    IF ~claim.failed THEN "SENT"
    ELSE IF claim.attempts >= MaxAttempts THEN "FAILED" ELSE "PENDING"

Finish(d) ==
    LET claim == dispatchers[d].claim
        x     == claim.delivery
    IN
    /\ dispatchers[d].pc = "FINISH"
    /\ deliveries' = IF Owned(claim)
                     THEN [deliveries EXCEPT
                              ![x].status = Verdict(claim), ![x].due = FALSE,
                              ![x].token = None, ![x].live = FALSE]
                     ELSE deliveries
    /\ Move(d, At("ROUTE"))
    /\ UNCHANGED <<now, deleted, jobs, rules, channels, history>>

\* A transaction rolls back, the database cannot be reached, or the process dies and a
\* new one starts: the loop starts again, and forgets what it had claimed.
Abort(d) ==
    /\ dispatchers[d].pc # "ROUTE"
    /\ Move(d, At("ROUTE"))
    /\ UNCHANGED <<now, deleted, jobs, rules, channels, deliveries, history>>

(***************************************************************************)
(* Operators                                                               *)
(***************************************************************************)
CreateChannel(c) ==
    /\ ~Created(c)
    /\ channels' = [channels EXCEPT ![c] = [enabled |-> TRUE, created |-> now]]
    /\ UNCHANGED <<now, deleted, jobs, rules, deliveries, dispatchers, history>>

\* createRule locks the monitors it names, so none is being deleted.
CreateRule(r, config) ==
    /\ rules[r].status = "NONE"
    /\ \A c \in config.channels : Created(c)
    /\ config.scope \cap deleted = {}
    /\ rules' = [rules EXCEPT ![r] =
           [status |-> "PRESENT", enabled |-> TRUE, types |-> config.types,
            channels |-> config.channels, scope |-> config.scope, created |-> now]]
    /\ UNCHANGED <<now, deleted, jobs, channels, deliveries, dispatchers, history>>

Cancelled(row) == [row EXCEPT !.status = "CANCELLED", !.token = None, !.live = FALSE]

\* Disabling a channel also cancels what waits for it or is being sent.
SetChannelEnabled(c, enabled) ==
    /\ Created(c)
    /\ channels' = [channels EXCEPT ![c].enabled = enabled]
    /\ deliveries' = [x \in Deliveries |->
           IF ~enabled /\ x[2] = c /\ deliveries[x].status \in {"PENDING", "PROCESSING"}
           THEN Cancelled(deliveries[x]) ELSE deliveries[x]]
    /\ UNCHANGED <<now, deleted, jobs, rules, dispatchers, history>>

SetRuleEnabled(r, enabled) ==
    /\ rules[r].status = "PRESENT"
    /\ rules' = [rules EXCEPT ![r].enabled = enabled]
    /\ UNCHANGED <<now, deleted, jobs, channels, deliveries, dispatchers, history>>

\* Notifications.retry, asked for by an operator.
Retry(x) ==
    /\ deliveries[x].status = "FAILED"
    /\ channels[x[2]].enabled
    /\ history[x].retried < MaxRetries
    /\ deliveries' = [deliveries EXCEPT ![x].status = "PENDING", ![x].attempts = 0,
                                        ![x].due = TRUE]
    /\ history' = [history EXCEPT ![x].retried = @ + 1]
    /\ UNCHANGED <<now, deleted, jobs, rules, channels, dispatchers>>

\* Mutant of Unrouted: the edit does not wait for the locks of the jobs.
UnroutedOrNot(m) == m \notin deleted

\* Both edits below lock the monitor's jobs first, so they wait for their routing.
Unrouted(m) == m \notin deleted /\ OfMonitor(m) \cap Locked = {}

\* Repository.updateMonitor, when the question changes.
Withdraw(m) ==
    /\ Unrouted(m)
    /\ jobs' = [j \in Jobs |-> IF j \in OfMonitor(m)
                               THEN [jobs[j] EXCEPT !.status = "CANCELLED"] ELSE jobs[j]]
    /\ deliveries' = [x \in Deliveries |->
           IF x[1] \in OfMonitor(m)
              /\ deliveries[x].status \in {"PENDING", "PROCESSING", "FAILED"}
           THEN Cancelled(deliveries[x]) ELSE deliveries[x]]
    /\ UNCHANGED <<now, deleted, rules, channels, dispatchers, history>>

\* An empty scope means all monitors, so a rule that named only this one goes.
Rescoped(rule, m) ==
    IF rule.scope = {m} THEN [NoRule EXCEPT !.status = "DELETED"]
    ELSE [rule EXCEPT !.scope = @ \ {m}]

\* Repository.deleteMonitor.
DeleteMonitor(m) ==
    /\ Unrouted(m)
    /\ deleted' = deleted \cup {m}
    /\ jobs' = [j \in Jobs |-> IF j \in OfMonitor(m)
                               THEN [jobs[j] EXCEPT !.status = "DELETED"] ELSE jobs[j]]
    /\ deliveries' = [x \in Deliveries |->
           IF x[1] \in OfMonitor(m) THEN NoDelivery ELSE deliveries[x]]
    /\ rules' = [r \in Rules |-> Rescoped(rules[r], m)]
    /\ UNCHANGED <<now, channels, dispatchers, history>>

(***************************************************************************)
(* Time passes                                                             *)
(***************************************************************************)
Tick == /\ now < MaxTime
        /\ now' = now + 1
        /\ UNCHANGED <<deleted, jobs, rules, channels, deliveries, dispatchers, history>>

\* next_attempt_at of a failed attempt comes: 30 s, 2, 10 or 30 minutes later.
Elapse(x) == /\ deliveries[x].status = "PENDING" /\ ~deliveries[x].due
             /\ deliveries' = [deliveries EXCEPT ![x].due = TRUE]
             /\ UNCHANGED <<now, deleted, jobs, rules, channels, dispatchers, history>>

\* The lease runs out before the attempt is over: a slow provider or a dead process.
Expire(x) == /\ deliveries[x].live
             /\ deliveries' = [deliveries EXCEPT ![x].live = FALSE]
             /\ UNCHANGED <<now, deleted, jobs, rules, channels, dispatchers, history>>

(******************************** next *************************************)

Routing(d) == ReadRules(d) \/ ReadChannels(d) \/ CommitRouting(d)

Sending(d) == CheckChannel(d) \/ CancelClaimed(d) \/ Deliver(d) \/ Finish(d)

Operating ==
    \/ \E c \in Channels : CreateChannel(c)
    \/ \E c \in Channels, enabled \in BOOLEAN : SetChannelEnabled(c, enabled)
    \/ \E r \in Rules, config \in RuleConfigs : CreateRule(r, config)
    \/ \E r \in Rules, enabled \in BOOLEAN : SetRuleEnabled(r, enabled)
    \/ \E x \in Deliveries : Retry(x)
    \/ \E m \in Monitors : Withdraw(m) \/ DeleteMonitor(m)

Passing == Tick \/ \E x \in Deliveries : Elapse(x) \/ Expire(x)

Next ==
    \/ \E j \in Jobs, m \in Monitors, type \in Types, at \in 1..now : Enqueue(j, m, type, at)
    \/ \E d \in Dispatchers :
           \/ LockJobs(d) \/ NothingToRoute(d) \/ Routing(d)
           \/ Claim(d) \/ Sending(d) \/ FailToDeliver(d) \/ Abort(d)
    \/ Operating
    \/ Passing

Spec == Init /\ [][Next]_vars

\* The server ends what a dispatcher that went away has left open.
Unlocking(d) == Routing(d) \/ (dispatchers[d].jobs # {} /\ Abort(d))

(***************************************************************************)
(* Fairness.  Dispatcher `d' keeps running: its loop catches every error   *)
(* and sleeps 500 ms (service.ts:123-133); the others may stop.  A         *)
(* transaction that is begun again and again succeeds at last, whoever     *)
(* begins it, and MariaDB rolls back that of a dead connection.  Time      *)
(* passes.                                                                 *)
(***************************************************************************)
Fairness(d) ==
    /\ WF_vars(LockJobs(d)) /\ WF_vars(NothingToRoute(d)) /\ SF_vars(Claim(d))
    /\ WF_vars(Sending(d))
    /\ \A e \in Dispatchers :
           /\ SF_vars(ReadRules(e)) /\ SF_vars(ReadChannels(e)) /\ SF_vars(CommitRouting(e))
           /\ WF_vars(Unlocking(e))
    /\ \A x \in Deliveries : WF_vars(Elapse(x)) /\ WF_vars(Expire(x))

\* Dispatchers are interchangeable: any of them may be the one that keeps running.
FairSpec == Spec /\ Fairness(CHOOSE d \in Dispatchers : TRUE)
-----------------------------------------------------------------------------
(******************************* properties ********************************)

JobType ==
    [status : {"NONE", "PENDING", "ROUTED", "IGNORED", "CANCELLED", "DELETED"},
     monitor : Monitors \cup {None}, type : Types \cup {None}, created : 0..MaxTime]
RuleType ==
    [status : {"NONE", "PRESENT", "DELETED"}, enabled : BOOLEAN, types : SUBSET Types,
     channels : SUBSET Channels, scope : SUBSET Monitors, created : 0..MaxTime]
DeliveryType ==
    [status : {"NONE", "PENDING", "PROCESSING", "SENT", "FAILED", "CANCELLED"},
     attempts : 0..MaxAttempts, due : BOOLEAN, token : Tokens \cup {None}, live : BOOLEAN]
ClaimType ==
    [delivery : Deliveries \cup {None}, token : Tokens \cup {None},
     attempts : 0..MaxAttempts, failed : BOOLEAN]
DispatcherType ==
    [pc : {"ROUTE", "RULES", "CHANNELS", "INSERT", "CLAIM", "CHECK", "CANCEL", "DELIVER", "FINISH"},
     jobs : SUBSET Jobs, rules : SUBSET RuleType, channels : SUBSET Channels, claim : ClaimType]

\* Every table and process holds what its type says, no delivery and no claim counts more
\* than MaxAttempts attempts, and no delivery is stranded: what is still to be sent has
\* an attempt left and what was given up has none, else claim passes it over for ever or
\* retry refuses it (service.ts:87-88, 101, 106).
TypeOK ==
    /\ now \in 1..MaxTime
    /\ deleted \subseteq Monitors
    /\ jobs \in [Jobs -> JobType]
    /\ rules \in [Rules -> RuleType]
    /\ channels \in [Channels -> [enabled : BOOLEAN, created : 0..MaxTime]]
    /\ deliveries \in [Deliveries -> DeliveryType]
    /\ dispatchers \in [Dispatchers -> DispatcherType]
    /\ history \in [Deliveries -> [sent : Nat, retried : Nat]]
    /\ \A x \in Deliveries :
           /\ deliveries[x].status = "PENDING" => deliveries[x].attempts < MaxAttempts
           /\ deliveries[x].status = "FAILED"  => deliveries[x].attempts = MaxAttempts

\* Once the question of a monitor has changed, none of its old alerts is ever waiting,
\* being sent or open to a retry again, even if it was being routed during the edit
\* (repository.ts:208-211, service.ts:58, 77).
WithdrawnStaysSilent ==
    [][\A j \in Jobs : jobs[j].status = "CANCELLED" =>
           /\ jobs'[j].status \in {"CANCELLED", "DELETED"}
           /\ \A c \in Channels : deliveries'[<<j, c>>].status \in {"NONE", "SENT", "CANCELLED"}]_vars

\* A delivery goes to a channel, and for a rule, that existed when the event happened:
\* new rules and channels do not replay old alerts (service.ts:68, 74).
NoReplay ==
    \A j \in Jobs, c \in Channels :
        deliveries[<<j, c>>].status # "NONE" =>
            /\ channels[c].created <= jobs[j].created
            /\ \E r \in Rules : /\ rules[r].status = "PRESENT" /\ c \in rules[r].channels
                                /\ rules[r].created <= jobs[j].created

Unsettled(x) == deliveries[x].status \in {"PENDING", "PROCESSING"}

Fate(x) ==
    IF jobs[x[1]].status = "DELETED" THEN "GONE"
    ELSE IF Unsettled(x) THEN "WAITING" ELSE deliveries[x].status

Life == INSTANCE DeliveryLife WITH
    fate    <- [x \in Deliveries |-> Fate(x)],
    sent    <- [x \in Deliveries |-> history[x].sent],
    retried <- [x \in Deliveries |-> history[x].retried]

\* Every delivery lives as DeliveryLife says, although dispatchers die, leases expire and a
\* late dispatcher may still be sending: a channel gets at most MaxAttempts requests for it
\* and as many again for each retry; SENT means that a request was received; what was sent
\* or cancelled is never rewritten (service.ts:86-92, 97-107, 116-121).
ImplementsLife == Life!Spec

\* docs/API.md:126: "Disabling a channel cancels pending/claimed deliveries [...]
\* Re-enabling does not replay cancelled deliveries."  So nothing waits for a channel
\* that is disabled.  The code breaks it: routePending may have read the channel before.
DisabledChannelIsQuiet ==
    \A j \in Jobs, c \in Channels :
        Created(c) /\ ~channels[c].enabled =>
            deliveries[<<j, c>>].status \notin {"PENDING", "PROCESSING"}

\* While one dispatcher keeps running, every alert is routed, and every delivery is sent,
\* given up, cancelled or deleted, whoever died with it in hand (service.ts:86-92, 123-133).
NothingLingers ==
    /\ \A j \in Jobs : jobs[j].status = "PENDING" ~> jobs[j].status # "PENDING"
    /\ \A x \in Deliveries : Unsettled(x) ~> ~Unsettled(x)
=============================================================================
