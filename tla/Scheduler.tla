------------------------------ MODULE Scheduler ------------------------------
(***************************************************************************)
(* The scheduler of DNSmonitor: Repository                                 *)
(* (packages/database/src/repository.ts), which keeps monitors, their      *)
(* leases, runs, incidents and outbox in MariaDB, and the Workers          *)
(* (apps/worker/src/worker.ts) that claim due monitors, query DNS and      *)
(* commit the outcome, while operators edit the same rows through the API. *)
(*                                                                         *)
(* Every Repository method is one transaction that locks the monitor row   *)
(* first, so it is one action here.  Between the transactions of one check *)
(* (claimDue, complete, fail) everything else may happen: that is where    *)
(* workers crash, leases expire and operators edit, pause or delete.       *)
(***************************************************************************)
EXTENDS Evaluator, Integers

CONSTANTS
    Monitors, Workers, Tokens,  \* ids: rows, processes, claims ever made
    Clients,        \* browser sessions that edit or delete monitors
    None,           \* SQL NULL, where an id could be
    Configs,        \* monitor configurations: records, see QueryIdentity and Timing
    Answers,        \* the sets of records a resolver may return, {} for a failure
    Concurrency,    \* worker option: checks in flight per worker
    LeaseGrace,     \* the 15 s that claimDue adds to the DNS budget
    RetryDelay,     \* the 5 s after which fail() lets a check run again
    ReadLag,        \* bound: how long claimDue may wait between reading the clock and the row
    MaxTime,        \* bound: the clock stops here
    MaxRevision     \* bound: edits per monitor

ASSUME NoneAssumption == None \notin Tokens \cup Monitors
ASSUME ConfigsAssumption ==
    \A c \in Configs : /\ c.interval \in Nat \ {0} /\ c.timeout \in Nat
                       /\ c.failureThreshold \in Nat \ {0}
                       /\ c.recoveryThreshold \in Nat \ {0}
                       /\ c.changeThreshold \in Nat \ {0}
                       /\ IsFiniteSet(c.resolvers) /\ c.resolvers # {}
ASSUME DelaysAssumption == /\ LeaseGrace \in Nat \ {0} /\ RetryDelay \in Nat \ {0}
                           /\ ReadLag \in Nat /\ Concurrency \in Nat
ASSUME AnswersAssumption == NoValue \in Answers
ASSUME BoundsAssumption == MaxTime \in Nat \ {0} /\ MaxRevision \in Nat \ {0}

VARIABLES
    now,         \* the database clock
    monitors,    \* table monitors
    states,      \* table monitor_states
    runs,        \* table check_runs, by lease token
    incidents,   \* table incidents: status, by the token of the run that opened it
    events,      \* table dns_events
    jobs,        \* table notification_jobs
    held,        \* the claims each worker is working on
    drafts       \* the monitor as each client last loaded it

vars == <<now, monitors, states, runs, incidents, events, jobs, held, drafts>>

(***************************************************************************)
(* Time.  A lease covers one DNS timeout per resolver, which are queried   *)
(* one after the other, and the grace to persist.  Zero is SQL NULL for a  *)
(* lease: every real expiry is later.                                      *)
(***************************************************************************)
LeaseEnd(c, at) == at + c.timeout * Cardinality(c.resolvers) + LeaseGrace

\* Mutant of NextSlot: the slot that has just passed.
SlotJustPassed(scheduled, finished, interval) ==
    scheduled + ((finished - scheduled) \div interval) * interval

\* The first slot of the cadence after `finished': missed slots are skipped.
NextSlot(scheduled, finished, interval) ==
    LET passed == (finished - scheduled) \div interval + 1
    IN  scheduled + (IF passed < 1 THEN 1 ELSE passed) * interval

(***************************************************************************)
(* Configurations.  queryIdentity() is what a monitor asks; the rest is    *)
(* when it asks and how it counts.                                         *)
(***************************************************************************)
QueryIdentity(c) ==
    [query |-> c.query, mode |-> c.mode, resolvers |-> c.resolvers,
     expected |-> IF c.mode = "EXPECTED" THEN c.expected ELSE None,
     match    |-> IF c.mode = "EXPECTED" THEN c.match ELSE None]

\* Mutant of Timing: a changed threshold goes unnoticed.
TimingOnly(c) == <<c.interval, c.timeout>>

Timing(c) == <<c.interval, c.timeout, c.failureThreshold, c.recoveryThreshold, c.changeThreshold>>

(******************************** rows *************************************)

Present(m) == monitors[m].phase = "PRESENT"

Running(t) == t # None /\ runs[t].status = "RUNNING"

Unissued == {t \in Tokens : runs[t].status = "UNISSUED"}

OfMonitor(m) == {t \in Tokens : runs[t].monitor = m}

\* The three columns that release a monitor and say when it is checked next.
Released(row, next) == [row EXCEPT !.token = None, !.lease = 0, !.next = next]

\* UPDATE check_runs SET status = ... WHERE id IN ts AND status = 'RUNNING'
RunsEnded(ts, status) ==
    [t \in Tokens |-> IF t \in ts /\ Running(t) THEN [runs[t] EXCEPT !.status = status]
                      ELSE runs[t]]

(******************************** init *************************************)

NoRow == [phase |-> "ABSENT", enabled |-> FALSE, config |-> None, revision |-> 0,
          history |-> 0, next |-> 0, token |-> None, lease |-> 0]

\* What a new monitor knows.
Fresh == [state |-> InitialState, active |-> None]

NoDraft == [monitor |-> None, revision |-> 0, seen |-> None]

Init ==
    /\ now = 1
    /\ monitors = [m \in Monitors |-> NoRow]
    /\ states = [m \in Monitors |-> Fresh]
    /\ runs = [t \in Tokens |-> [status |-> "UNISSUED", monitor |-> None, revision |-> 0]]
    /\ incidents = [t \in Tokens |-> "NONE"]
    /\ events = {}
    /\ jobs = {}
    /\ held = [w \in Workers |-> {}]
    /\ drafts = [cl \in Clients |-> NoDraft]

(***************************************************************************)
(* Repository.createMonitor: the first check is staggered over one         *)
(* interval for monitors made through the API, immediate for examples.     *)
(***************************************************************************)
CreateMonitor(m, c, delay) ==
    /\ monitors[m].phase = "ABSENT"
    /\ delay < c.interval
    /\ monitors' = [monitors EXCEPT ![m] =
           [phase |-> "PRESENT", enabled |-> TRUE, config |-> c, revision |-> 1,
            history |-> 1, next |-> now + delay, token |-> None, lease |-> 0]]
    /\ states' = [states EXCEPT ![m] = Fresh]
    /\ UNCHANGED <<now, runs, incidents, events, jobs, held, drafts>>

(***************************************************************************)
(* Repository.claimDue, called by Worker.run with its spare capacity.  The *)
(* clock is read first, the rows are locked after.  SKIP LOCKED makes the  *)
(* claimed rows any of the due ones: the others may be locked by another   *)
(* transaction.  A worker that is not `reached' by the answer (a lost      *)
(* connection, a crash) does not know its claims.                          *)
(***************************************************************************)
Due(m, at) ==
    /\ Present(m) /\ monitors[m].enabled
    /\ monitors[m].next <= at
    /\ monitors[m].lease <= at

Claim(m, t) ==
    [monitor |-> m, token |-> t, revision |-> monitors[m].revision,
     config |-> monitors[m].config, scheduledAt |-> monitors[m].next, pc |-> "EXECUTE"]

ClaimDue(w, at, S, token, reached) ==
    /\ S # {}
    /\ Cardinality(S) <= Concurrency - Cardinality(held[w])
    /\ \A m \in S : Due(m, at)
    /\ monitors' = [m \in Monitors |->
           IF m \in S THEN [monitors[m] EXCEPT !.token = token[m],
                                               !.lease = LeaseEnd(monitors[m].config, at)]
                      ELSE monitors[m]]
    /\ LET abandoned == {monitors[m].token : m \in S}
       IN  runs' = [t \in Tokens |->
               IF \E m \in S : token[m] = t
               THEN LET m == CHOOSE x \in S : token[x] = t
                    IN  [status |-> "RUNNING", monitor |-> m, revision |-> monitors[m].revision]
               ELSE RunsEnded(abandoned, "ABANDONED")[t]]
    /\ held' = [held EXCEPT ![w] = IF reached THEN @ \cup {Claim(m, token[m]) : m \in S} ELSE @]
    /\ UNCHANGED <<now, states, incidents, events, jobs, drafts>>

(***************************************************************************)
(* Repository.complete, with the results of the DNS queries.               *)
(***************************************************************************)
\* Mutant of Current: the lease may be another claim's.
CurrentForAnyToken(claim) ==
    LET row == monitors[claim.monitor]
    IN  row.phase = "PRESENT" /\ row.enabled /\ row.revision = claim.revision /\ row.lease > now

\* The claim is still the monitor's: nothing was claimed, paused, edited or
\* deleted since, and the lease has not run out.
Current(claim) ==
    LET row == monitors[claim.monitor]
    IN  /\ row.phase = "PRESENT" /\ row.enabled
        /\ row.token = claim.token
        /\ row.revision = claim.revision
        /\ row.lease > now

Outcome(claim, results) == Evaluate(claim.config, states[claim.monitor].state, results, now)

Types(claim, results) == Emitted(states[claim.monitor].state, Outcome(claim, results))

\* evaluate() or one of the two assertions on the active incident throws; the
\* transaction rolls back.
Refused(claim, results) ==
    LET active == states[claim.monitor].active
    IN  \/ NotNewer(states[claim.monitor].state, now)
        \/ "INCIDENT_OPENED" \in Types(claim, results) /\ active # None
        \/ "INCIDENT_RESOLVED" \in Types(claim, results) /\ active = None

\* Mutant of IncidentOf: the incident is cleared before its resolution is recorded.
IncidentClearedFirst(type, claim, results) ==
    IF type = "INCIDENT_OPENED" THEN claim.token
    ELSE IF "INCIDENT_RESOLVED" \in Types(claim, results) THEN None
    ELSE states[claim.monitor].active

\* The incident an event of this check belongs to: value events come after
\* INCIDENT_RESOLVED has cleared it.
IncidentOf(type, claim, results) ==
    LET active == states[claim.monitor].active
    IN  CASE type = "INCIDENT_OPENED" -> claim.token
          [] type = "INCIDENT_RESOLVED" -> active
          [] OTHER -> IF "INCIDENT_RESOLVED" \in Types(claim, results) THEN None ELSE active

NewEvents(claim, results) ==
    {[monitor |-> claim.monitor, run |-> claim.token, revision |-> claim.revision,
      type |-> type, incident |-> IncidentOf(type, claim, results)]
        : type \in Types(claim, results)}

NewJobs(claim, results) ==
    {[event |-> e, status |-> "PENDING"]
        : e \in {x \in NewEvents(claim, results) : x.type # "BASELINE_ESTABLISHED"}}

\* Mutant of ActiveAfter: active_incident_id outlives the incident.
ActiveForEver(claim, results) ==
    IF "INCIDENT_OPENED" \in Types(claim, results) THEN claim.token
    ELSE states[claim.monitor].active

ActiveAfter(claim, results) ==
    IF "INCIDENT_OPENED" \in Types(claim, results) THEN claim.token
    ELSE IF "INCIDENT_RESOLVED" \in Types(claim, results) THEN None
    ELSE states[claim.monitor].active

Drop(w, claim) == held' = [held EXCEPT ![w] = @ \ {claim}]

\* execute() goes to its catch branch, which calls fail().
Release(w, claim) ==
    held' = [held EXCEPT ![w] = (@ \ {claim}) \cup {[claim EXCEPT !.pc = "RELEASE"]}]

\* check_completed, or, when the answer to COMMIT is lost, an error for the worker.
Commit(w, claim, results, answered) ==
    LET m == claim.monitor
        active == states[m].active
    IN
    /\ claim.pc = "EXECUTE"
    /\ Current(claim)
    /\ ~Refused(claim, results)
    /\ runs' = [runs EXCEPT ![claim.token].status = "COMPLETED"]
    /\ events' = events \cup NewEvents(claim, results)
    /\ jobs' = jobs \cup NewJobs(claim, results)
    /\ incidents' = [t \in Tokens |->
           IF t = claim.token /\ "INCIDENT_OPENED" \in Types(claim, results) THEN "OPEN"
           ELSE IF t = active /\ "INCIDENT_RESOLVED" \in Types(claim, results) THEN "RESOLVED"
           ELSE incidents[t]]
    /\ states' = [states EXCEPT ![m] = [state |-> Outcome(claim, results),
                                        active |-> ActiveAfter(claim, results)]]
    /\ monitors' = [monitors EXCEPT ![m] =
           Released(@, NextSlot(claim.scheduledAt, now, claim.config.interval))]
    /\ IF answered THEN Drop(w, claim) ELSE Release(w, claim)
    /\ UNCHANGED <<now, drafts>>

\* complete() answers false: check_discarded.
Discard(w, claim) ==
    /\ claim.pc = "EXECUTE"
    /\ ~Current(claim)
    /\ Drop(w, claim)
    /\ UNCHANGED <<now, monitors, states, runs, incidents, events, jobs, drafts>>

\* complete() throws, a query throws, the database is away or the drain deadline passes.
Interrupt(w, claim) ==
    /\ claim.pc = "EXECUTE"
    /\ Release(w, claim)
    /\ UNCHANGED <<now, monitors, states, runs, incidents, events, jobs, drafts>>

(***************************************************************************)
(* Repository.fail                                                         *)
(***************************************************************************)
Fail(w, claim) ==
    LET m == claim.monitor
        owned == Present(m) /\ monitors[m].token = claim.token
    IN
    /\ claim.pc = "RELEASE"
    /\ runs' = IF owned THEN RunsEnded({claim.token}, "ERROR") ELSE runs
    /\ monitors' = IF owned
                   THEN [monitors EXCEPT ![m] = Released(@, now + RetryDelay)]
                   ELSE monitors
    /\ Drop(w, claim)
    /\ UNCHANGED <<now, states, incidents, events, jobs, drafts>>

\* claim_release_error: fail() throws too, and the lease is left to expire.
ReleaseError(w, claim) ==
    /\ claim.pc = "RELEASE"
    /\ Drop(w, claim)
    /\ UNCHANGED <<now, monitors, states, runs, incidents, events, jobs, drafts>>

\* The worker process dies, with everything it was doing.
Crash(w) ==
    /\ held[w] # {}
    /\ held' = [held EXCEPT ![w] = {}]
    /\ UNCHANGED <<now, monitors, states, runs, incidents, events, jobs, drafts>>

(***************************************************************************)
(* Operators.  Every edit takes the lease away, so that a check in flight  *)
(* is discarded when it comes back, and counts one revision.               *)
(***************************************************************************)
\* Mutant of Edited: config_revision stays.
EditedSilently(row) == Released(row, now)

\* The columns every edit writes: the monitor is due at once.
Edited(row) == [Released(row, now) EXCEPT !.revision = @ + 1]

\* Mutant of AbandonRun: the run of the lease that is taken away stays RUNNING.
RunLeftRunning(m) == runs

AbandonRun(m) == RunsEnded({monitors[m].token}, "ABANDONED")

MayEdit(m) == Present(m) /\ monitors[m].revision < MaxRevision

\* Repository.setEnabled: pause and resume.
SetEnabled(m, enabled) ==
    /\ MayEdit(m)
    /\ runs' = AbandonRun(m)
    /\ states' = [states EXCEPT ![m].state = ResetStreaks(@)]
    /\ monitors' = [monitors EXCEPT ![m] = [Edited(@) EXCEPT !.enabled = enabled]]
    /\ UNCHANGED <<now, incidents, events, jobs, held, drafts>>

\* Repository.updateTiming: the same question, other timing or thresholds.
UpdateTiming(m, c) ==
    /\ MayEdit(m)
    /\ QueryIdentity(c) = QueryIdentity(monitors[m].config)
    /\ runs' = AbandonRun(m)
    /\ states' = [states EXCEPT ![m].state = ResetStreaks(@)]
    /\ monitors' = [monitors EXCEPT ![m] = [Edited(@) EXCEPT !.config = c]]
    /\ UNCHANGED <<now, incidents, events, jobs, held, drafts>>

\* Repository.checkNow: only a monitor that nobody is checking.
CheckNow(m) ==
    /\ Present(m) /\ monitors[m].enabled /\ monitors[m].token = None
    /\ monitors' = [monitors EXCEPT ![m].next = now]
    /\ UNCHANGED <<now, states, runs, incidents, events, jobs, held, drafts>>

\* Repository.inspect: the client remembers what it saw, to edit it later.
Inspect(cl, m) ==
    /\ Present(m)
    /\ drafts' = [drafts EXCEPT ![cl] =
           [monitor |-> m, revision |-> monitors[m].revision, seen |-> monitors[m].config]]
    /\ UNCHANGED <<now, monitors, states, runs, incidents, events, jobs, held>>

\* Otherwise updateMonitor and deleteMonitor throw, RevisionConflict or not found.
DraftIsCurrent(cl) ==
    LET m == drafts[cl].monitor
    IN  m # None /\ Present(m) /\ monitors[m].revision = drafts[cl].revision

Closed(active) ==
    IF active = None THEN incidents ELSE [incidents EXCEPT ![active] = "CLOSED"]

\* Mutant of Withdrawn: alerts about the old question stay in the outbox.
LeftPending(m) == jobs

Withdrawn(m) ==
    {IF j.event.monitor = m THEN [j EXCEPT !.status = "CANCELLED"] ELSE j : j \in jobs}

\* Repository.updateMonitor.  Another question makes it a new monitor: its incident
\* is closed, its alerts are withdrawn, what was learned is forgotten.
UpdateMonitor(cl, c) ==
    LET m       == drafts[cl].monitor
        row     == monitors[m]
        active  == states[m].active
        changed == QueryIdentity(c) # QueryIdentity(row.config)
    IN
    /\ DraftIsCurrent(cl) /\ MayEdit(m)
    /\ runs' = AbandonRun(m)
    /\ incidents' = IF changed THEN Closed(active) ELSE incidents
    /\ jobs' = IF changed THEN Withdrawn(m) ELSE jobs
    /\ events' = IF changed
                 THEN events \cup {[monitor |-> m, run |-> None, revision |-> row.revision + 1,
                                    type |-> "CONFIGURATION_CHANGED", incident |-> active]}
                 ELSE events
    /\ states' = [states EXCEPT ![m] =
           CASE changed -> Fresh
             [] ~changed /\ Timing(c) # Timing(row.config) -> [@ EXCEPT !.state = ResetStreaks(@)]
             [] OTHER -> @]
    /\ monitors' = [monitors EXCEPT ![m] =
           [Edited(row) EXCEPT !.config = c,
                               !.history = IF changed THEN row.revision + 1 ELSE row.history]]
    /\ drafts' = [drafts EXCEPT ![cl] = NoDraft]
    /\ UNCHANGED <<now, held>>

JobsWithout(m) == {j \in jobs : j.event.monitor # m}

\* Repository.deleteMonitor: the row and all that refers to it, in one transaction.
DeleteMonitor(cl) ==
    LET m == drafts[cl].monitor
    IN
    /\ DraftIsCurrent(cl)
    /\ monitors' = [monitors EXCEPT ![m] = [NoRow EXCEPT !.phase = "DELETED"]]
    /\ states' = [states EXCEPT ![m] = Fresh]
    /\ runs' = [t \in Tokens |->
           IF t \in OfMonitor(m) THEN [runs[t] EXCEPT !.status = "DELETED"] ELSE runs[t]]
    /\ incidents' = [t \in Tokens |-> IF t \in OfMonitor(m) THEN "NONE" ELSE incidents[t]]
    /\ events' = {e \in events : e.monitor # m}
    /\ jobs' = JobsWithout(m)
    /\ drafts' = [drafts EXCEPT ![cl] = NoDraft]
    /\ UNCHANGED <<now, held>>

\* Mutant of Acknowledge: any incident can be acknowledged.
AcknowledgeAny(t) ==
    /\ incidents[t] # "NONE"
    /\ incidents' = [incidents EXCEPT ![t] = "ACKNOWLEDGED"]
    /\ UNCHANGED <<now, monitors, states, runs, events, jobs, held, drafts>>

\* POST /api/v1/incidents/:id/acknowledge
Acknowledge(t) ==
    /\ incidents[t] = "OPEN"
    /\ incidents' = [incidents EXCEPT ![t] = "ACKNOWLEDGED"]
    /\ UNCHANGED <<now, monitors, states, runs, events, jobs, held, drafts>>

\* Notifications.routePending takes a job off the outbox (its deliveries are not
\* part of this module).
RouteJob(j) ==
    /\ j.status = "PENDING"
    /\ \E status \in {"ROUTED", "IGNORED"} :
           jobs' = (jobs \ {j}) \cup {[j EXCEPT !.status = status]}
    /\ UNCHANGED <<now, monitors, states, runs, incidents, events, held, drafts>>

Tick ==
    /\ now < MaxTime
    /\ now' = now + 1
    /\ UNCHANGED <<monitors, states, runs, incidents, events, jobs, held, drafts>>

(******************************* next **************************************)

\* Fresh tokens for the claimed monitors: randomUUID never repeats.
FreshTokens(S) == {f \in [S -> Unissued] : \A m, n \in S : f[m] = f[n] => m = n}

Claiming(w) ==
    \E at \in {t \in 1..now : now <= t + ReadLag} :
      \E S \in SUBSET {m \in Monitors : Due(m, at)} :
        \E token \in FreshTokens(S), reached \in BOOLEAN : ClaimDue(w, at, S, token, reached)

Working(w) ==
    \E claim \in held[w] :
      \/ \E results \in [claim.config.resolvers -> Answers], answered \in BOOLEAN :
            Commit(w, claim, results, answered)
      \/ Discard(w, claim)
      \/ Interrupt(w, claim)
      \/ Fail(w, claim)
      \/ ReleaseError(w, claim)

Operating(m) ==
    \/ \E c \in Configs : \E delay \in 0..(c.interval - 1) : CreateMonitor(m, c, delay)
    \/ \E enabled \in BOOLEAN : SetEnabled(m, enabled)
    \/ \E c \in Configs : UpdateTiming(m, c)
    \/ CheckNow(m)

Editing(cl) ==
    \/ \E m \in Monitors : Inspect(cl, m)
    \/ \E c \in Configs : UpdateMonitor(cl, c)
    \/ DeleteMonitor(cl)

Next ==
    \/ \E w \in Workers : Claiming(w) \/ Working(w) \/ Crash(w)
    \/ \E m \in Monitors : Operating(m)
    \/ \E cl \in Clients : Editing(cl)
    \/ \E t \in Tokens : Acknowledge(t)
    \/ \E j \in jobs : RouteJob(j)
    \/ Tick

Spec == Init /\ [][Next]_vars

-----------------------------------------------------------------------------
(******************************* properties ********************************)

Records == UNION Answers

StateType ==
    [status : Statuses, failures : Nat, successes : Nat, incidentOpen : BOOLEAN,
     baseline : SUBSET Records, candidate : SUBSET Records,
     candidateCount : Nat, lastCheckedAt : Nat]
RowType ==
    [phase : {"ABSENT", "PRESENT", "DELETED"}, enabled : BOOLEAN,
     config : Configs \cup {None}, revision : 0..MaxRevision, history : 0..MaxRevision,
     next : Nat, token : Tokens \cup {None}, lease : Nat]
RunType ==
    [status : {"UNISSUED", "RUNNING", "COMPLETED", "ERROR", "ABANDONED", "DELETED"},
     monitor : Monitors \cup {None}, revision : 0..MaxRevision]
EventType ==
    [monitor : Monitors, run : Tokens \cup {None}, revision : 0..MaxRevision,
     type : EventTypes \cup {"CONFIGURATION_CHANGED"}, incident : Tokens \cup {None}]
JobType == [event : EventType, status : {"PENDING", "ROUTED", "IGNORED", "CANCELLED"}]
ClaimType ==
    [monitor : Monitors, token : Tokens, revision : 0..MaxRevision, config : Configs,
     scheduledAt : Nat, pc : {"EXECUTE", "RELEASE"}]
DraftType ==
    [monitor : Monitors \cup {None}, revision : 0..MaxRevision, seen : Configs \cup {None}]

\* Every table, worker and client holds what its schema or interface says.
TypeOK ==
    /\ now \in 1..MaxTime
    /\ monitors \in [Monitors -> RowType]
    /\ \A m \in Monitors : Present(m) => monitors[m].config \in Configs
    /\ states \in [Monitors -> [state : StateType, active : Tokens \cup {None}]]
    /\ runs \in [Tokens -> RunType]
    /\ incidents \in [Tokens -> {"NONE", "OPEN", "ACKNOWLEDGED", "RESOLVED", "CLOSED"}]
    /\ events \subseteq EventType
    /\ jobs \subseteq JobType
    /\ held \in [Workers -> SUBSET ClaimType]
    /\ drafts \in [Clients -> DraftType]

\* Exactly one run of a leased monitor is RUNNING, the one its lease names, and no
\* run of an unleased one is: whatever crashed, expired, was edited or paused, no
\* run is left RUNNING for ever and none runs beside another
\* (repository.ts:71, 99, 130, 139, 185, 206).
RunningIffLeased ==
    /\ \A m \in Monitors : monitors[m].token # None =>
           Running(monitors[m].token) /\ runs[monitors[m].token].monitor = m
    /\ \A t \in Tokens : Running(t) =>
           runs[t].monitor # None /\ monitors[runs[t].monitor].token = t

Unresolved(t) == incidents[t] \in {"OPEN", "ACKNOWLEDGED"}

\* The three places that record an open incident agree: the flag in the evaluated
\* state, active_incident_id, and the incidents table, where nothing else of the
\* monitor is unresolved.  Otherwise complete() throws at every later transition
\* (repository.ts:102, 113) or an incident is never resolved.
IncidentConsistent ==
    /\ \A m \in Monitors :
           LET active == states[m].active
           IN  /\ states[m].state.incidentOpen <=> active # None
               /\ active # None => Unresolved(active) /\ runs[active].monitor = m
    /\ \A t \in Tokens : Unresolved(t) =>
           runs[t].monitor # None /\ states[runs[t].monitor].active = t

\* Once what a monitor asks has been edited, no alert about the old question is still
\* to be routed and no incident about it is open, even if a check of the old
\* configuration was in flight during the edit (repository.ts:94, 210, 212).
OldQuestionIsSilent ==
    /\ \A j \in jobs : j.status = "PENDING" =>
           j.event.revision >= monitors[j.event.monitor].history
    /\ \A t \in Tokens : Unresolved(t) =>
           runs[t].revision >= monitors[runs[t].monitor].history

\* Whoever remembers a revision that is still current, a worker in its claim or a
\* client in its draft, remembers the configuration that is in force: so no check is
\* evaluated against an old configuration, and no edit or deletion overwrites a change
\* its author did not see (repository.ts:94, 200, 234; config_revision + 1 at 148, 191, 225).
RevisionNamesConfig ==
    /\ \A w \in Workers : \A claim \in held[w] :
           LET row == monitors[claim.monitor]
           IN  row.phase = "PRESENT" /\ row.revision = claim.revision => row.config = claim.config
    /\ \A cl \in Clients :
           DraftIsCurrent(cl) => drafts[cl].seen = monitors[drafts[cl].monitor].config

\* The streaks kept in the stored state never pass the thresholds in force, although an
\* edit may lower them, and a paused monitor has none: an operator who resumes it starts
\* counting from zero (repository.ts:142-146, 188, 217).
StreaksAreCurrent ==
    \A m \in Monitors : Present(m) =>
        LET c == monitors[m].config
            s == states[m].state
        IN  /\ s.failures <= c.failureThreshold
            /\ s.successes <= c.recoveryThreshold
            /\ s.candidateCount < c.changeThreshold
            /\ ~monitors[m].enabled =>
                   s.failures = 0 /\ s.successes = 0 /\ s.candidate = NoValue

Finished(t) == runs[t].status \in {"COMPLETED", "ERROR", "ABANDONED"}

\* A finished run is never rewritten, by a late worker, by a second completion or by
\* the fail() that follows a commit whose answer was lost (repository.ts:94, 99, 129-130).
FinishedRunsStay ==
    [][\A t \in Tokens : Finished(t) =>
           runs'[t] = runs[t] \/ runs'[t].status = "DELETED"]_vars

\* After a check the monitor is due again on its cadence, at the first slot in the
\* future: neither at once, nor a slot late, nor off the grid
\* (repository.ts:36-40, 120, 153).
RecheckOnCadence ==
    [][\A t \in Tokens : runs[t].status = "RUNNING" /\ runs'[t].status = "COMPLETED" =>
           LET m    == runs[t].monitor
               next == monitors'[m].next
               interval == monitors[m].config.interval
           IN  /\ now < next /\ next <= now + interval
               /\ (next - monitors[m].next) % interval = 0]_vars
=============================================================================
