# A verification development for DNSmonitor

DNSmonitor watches DNS records: it asks a set of resolvers a question on a fixed
cadence, decides by majority what the answer is, and keeps a monitor's status, its
incidents and an outbox of alerts in MariaDB. This directory models the parts of it
that are hard to test, checks them with TLC on small instances, and proves the most
important results for every instance with TLAPS.

    tlc -workers 2 -config MCSchedulerWorkers.cfg MCScheduler.tla    # a run, see "The runs"
    tlapm SchedulerProofs.tla                                        # one of the modules of proofs

`PROJECT.json` lists the runs, the lines of the source that each definition stands for,
the hazards of the code and the properties that watch them, and for each property a
small plausible bug (defined in the module as a *mutant*) under which it fails.

## The system

All state that matters is in MariaDB; processes come and go. `packages/` holds the
logic, `apps/` the processes that run it.

| Part | Source | State it keeps | Operations |
| --- | --- | --- | --- |
| Monitoring rules | `packages/monitoring`, `packages/dns-engine/src/records.ts` | none: pure functions over `MonitorState` (status, streak counters, baseline, candidate, incident flag) | `consensus`, `evaluate`, `initialState`, `validateConfig`, `normalize`, `matches` |
| Repository | `packages/database/src/repository.ts` | `monitors` (with the lease), `monitor_states`, `check_runs`, `incidents`, `dns_events`, `notification_jobs`, resolver groups | `createMonitor`, `claimDue`, `complete`, `fail`, `setEnabled`, `updateTiming`, `checkNow`, `updateMonitor`, `deleteMonitor`, `inspect`, `heartbeat` |
| Worker | `apps/worker/src/worker.ts` | the promises of the checks in flight, `stopping`, the last heartbeat | `run` (poll, claim, spawn), `execute` (query, complete or fail), drain on shutdown |
| Notifications | `packages/notifications` | `notification_channels`, `alert_rules`, `notification_deliveries` | `routePending`, `claim`, `send`, `finish`, `retry`, `setChannelEnabled`, `setRuleEnabled`, `createChannel`, `createRule` |
| DNS queries | `packages/dns-engine/src/query.ts` | a socket and timers per query | `query`, `exchange` (UDP, retry over TCP when truncated, timeout, abort) |
| Retention | `packages/database/src/retention.ts` | `maintenance`, `monitor_hourly` | `sweep` (hourly roll-up, then bounded deletes) |
| Accounts | `packages/auth` | `users`, `sessions`, `login_limits` | `setup`, `provision`, `login`, `session`, `logout`, `changePassword`, `setAdmin`, `cleanup` |
| Connections | `packages/database/src/connection.ts` | the pool | `transaction` (retries deadlocks and lock timeouts), `databaseTime` |
| Migrations | `packages/database/src/migrations.ts` | `schema_migrations` | `migrate`, `requireSchema` |
| Operations metrics | `packages/database/src/operations.ts`, `apps/api/src/metrics.ts` | a cached snapshot and a pending promise | `snapshot`, `collect`, `prometheus` |
| HTTP API, CLI | `apps/api`, `apps/cli` | none of their own | routes that call the above |
| Web client | `apps/web` | what a page last loaded | polling, edit dialogs |

### How the parts interact

No process talks to another one: they meet in rows of the database.

- **Lease.** A worker claims a due monitor by writing a token and an expiry into its row
  and a `RUNNING` row into `check_runs`. It queries DNS outside any transaction and comes
  back with the token; `complete` and `fail` do nothing unless the token, the revision and
  the expiry still stand. Whoever takes the lease away (the next claim, an edit, a pause,
  a deletion) ends its run.
- **Revision.** Every change of a monitor bumps `config_revision`. An edit and a deletion
  name the revision they were prepared with and are refused if it has moved on.
- **Outbox.** `complete` and `updateMonitor` write events and jobs in their own
  transaction; dispatchers later turn a job into deliveries by the rules of the moment,
  and send each under a lease like that of a check.
- **Retention** deletes, in one long transaction of many statements, rows of the same
  tables that all of the above are writing.
- **Sessions** are rows; the API looks one up for every request, and the browser polls
  the API, keeping what it loaded for as long as a dialog is open.

### What is hard here, and what makes each part correct

| Part | Hard behaviour | What has to hold |
| --- | --- | --- |
| Monitoring rules | streaks, flapping, majorities that fail or disagree, resets in between | the stored counters are what the history of answers says |
| Scheduler | late workers, crashes between transactions, lost answers to `COMMIT`, stale clocks, edits during a check | a run is `RUNNING` exactly while a lease names it; finished runs are final; the three records of an open incident agree; every incident is announced once at each end; the cadence is kept |
| Worker | a signal to stop at every point, queries cut off, a database that fails | nothing is left leased, no cut-off query counts as an answer, it stops |
| DNS queries | a timer, an abort, an answer and a retry over TCP for one query; records in any order | a query keeps its timeout and ends once; what is read does not depend on the order |
| Notifications | unlocked reads while routing, leases over before the provider answers, dead dispatchers | attempts are bounded; what is settled stays; withdrawn alerts stay silent; new rules do not replay; every alert is routed and settled in the end |
| Accounts | hashing takes long and what was read before it is stale | sessions end with their password; one initial account; no slot is lost |
| Connections, limits on attempts | transactions that wait, are rolled back and tried again, or lose their answer | an attempt is counted at most once, at one instant; nobody waits or is kept out for ever |
| Retention | failures in the middle, rows that are still referred to or come alive again | summaries are exact; references hold; what is in progress stays; the rest goes |
| Migrations | DDL commits at once, processes of several releases race and die | what is interrupted can be continued; a process that serves finds its schema |
| Web client | polls, dialogs and mutations overlap; tabs share a cookie | no edit overwrites what its author did not see; nothing is done in another name; a page keeps up |

The list of hazards, each at its line, is in `PROJECT.json`.

## The modules

The names are those of the source wherever possible. An `\* Mutant of X` above a
definition says that it is a deliberately wrong form of `X` which no specification uses.

### Evaluator, Records, Detector: `packages/monitoring`, what a response says

`Evaluator` holds the pure functions, as operators on records and sets. `normalize`
sorts and removes duplicates and `hash` is only compared, so an answer is a set of
records, empty if the resolver failed or had none. `Consensus` chooses the value with a
strict majority of the *configured* resolvers, `Evaluate` is one call of `evaluate`, with
the events it returns, `ResetStreaks` what pausing and retiming do to the state.

`Records` is what `query` takes from a response (`query.ts:80-120`): whether it is valid,
its code, the names that the hostname leads to through aliases, the values they own. A
text is a pair of what it says and how it is spelled; `Normal` forgets the spelling, and
`Garbled` is a text that is no name or value. `Owners` is the loop of the code, pass by
pass; `Reached`, which it is compared with, is the smallest set closed under aliases.

`Detector` folds `Evaluate` over checks, in each of which every resolver sends some
response, with `Retime` and `Redefine` in between, and
keeps in `window` what the checks since the last reset showed. Its reference definitions
(`BadRun`, `GoodRun`, `Steady`) say over that history what the counters should say, and
do not use `Consensus`: agreement is "more than half of the configured resolvers gave
exactly this value".

### Scheduler: `repository.ts` and the worker's side of it

Every method of `Repository` is one transaction that locks the row of the monitor first,
so each is one action. Variables are tables: `monitors`, `states`, `runs` (by lease
token), `incidents` (by the token of the run that opened it), `events`, `jobs`; `held` is
what each worker has claimed, `drafts` the monitor as each client last loaded it.

| Action | Code |
| --- | --- |
| `CreateMonitor`, `UpdateMonitor`, `UpdateTiming`, `SetEnabled`, `CheckNow`, `DeleteMonitor`, `Inspect` | the methods of those names; `UpdateMonitor` and `DeleteMonitor` are a client's, who names the revision of its draft |
| `ClaimDue(w, at, S, token, reached)` | `claimDue`: `at` is the time read before the rows were locked, at most `ReadLag` ago; `S` the due rows it gets (`SKIP LOCKED`: any), `reached` says whether the answer came back |
| `Commit`, `Discard` | `complete`, which commits or finds that it is late; `Commit` may lose its answer, and then the worker goes on to `fail` |
| `Interrupt`, `Fail`, `ReleaseError` | a check that throws, `fail`, and a `fail` that throws too |
| `Crash` | the process dies with what it holds |
| `Acknowledge`, `RouteJob` | `server.ts:178`, and what routing does to a job (in full in `Notifications`) |
| `Tick` | the clock of the database |

A lease of 0 is SQL `NULL`. `LeaseEnd` is one timeout per resolver and the grace.
`NextSlot` is the expression of `complete` that skips missed slots.

### MonitorLife, SchedulerLife: what the scheduler promises

`MonitorLife` is a monitor without workers, leases, clocks, revisions or configurations:
it has at most one check whose outcome will count (`checker`) and at most one incident
that is not over; a check ends once; only a check that counts opens or resolves an
incident, an edit closes it, an operator acknowledges it once; each beginning and each
end is announced once. `SchedulerLife` extends `Scheduler` with the refinement mapping:
the checker is the token of the lease, an announcement an event that names an incident.
A worker that comes too late, a lost answer, an expiry, a crash and the steps of clients
map to steps that change nothing.

### The modules of proofs

`SchedulerProofs` (about `SchedulerLife` too), `DetectorProofs`, `WorkerProofs`,
`NotificationsProofs`, `AccountsProofs`, `RetentionProofs` and `ClientProofs` have the
inductive invariants and the theorems about the module of that name, `DatabaseProofs` those
about `Limits` and about `Migrations`. It extends both, which is why the names of `Limits`
that every module has begin with the module's (`LimitsInit`, `LimitsSpec`). They have
nothing that the runs need; see "The proofs".

### Worker: `worker.ts`, and the queries of `query.ts`

One process: `loop` is where `run` waits, `tasks` where each `execute` waits, `leases`
what became of each claim in the database (its details are `Scheduler`'s). JavaScript
runs from one `await` to the next, so that is a step. A call to the database may fail
with or without its effect (`MaxErrors` of them). `Terminate` is the signal, `Deadline`
the end of the drain, which aborts the queries of all checks at once.

A check that waits has an `exchange`: the protocol, the time since the query began and
what is left on the timer. `Answer` is a response or an error of the socket, `Truncated`
the retry over TCP in the time that remains (`Remaining`), `Wait` the passing of time,
`Expire` the timer. The promise settles and `execute` resumes before another event comes
(`Ended`), so each of them looks at the signal in the same step.

### Notifications: `packages/notifications/src/service.ts`

A dispatcher is at a point of its loop: `ROUTE`, then `RULES`, `CHANNELS`, `INSERT`
(the transaction of `routePending`: its reads of rules and channels take no locks under
`READ COMMITTED`, so they are steps), then `CLAIM`, `CHECK`, `CANCEL` or `DELIVER` and
`FINISH`. `LockJobs`, `ReadRules`, `ReadChannels`, `CommitRouting`, `Claim`,
`CheckChannel`, `CancelClaimed`, `Deliver`, `Finish` follow the code; `FailToDeliver` is a
provider that fails, `Abort` an error or a death anywhere. `SetChannelEnabled`,
`SetRuleEnabled`, `CreateChannel`, `CreateRule`, `Retry` are the API's; `Enqueue`,
`Withdraw` and `DeleteMonitor` are what `Repository` does to these tables. The lease of
45 s and the delay of a retry are only compared with the present, so each is a flag that
`Expire` and `Elapse` flip at any later moment. `history` counts the requests that
reached the provider.

`DeliveryLife` is one delivery as the log and the channel show it, without dispatchers,
claims and leases: waiting, sent, failed, cancelled or gone, with a bounded number of
requests for each retry, and `SENT` only if a request arrived. `Notifications` maps its
tables to it (`Fate`); a step may move many deliveries, each by one step of its own.

### Accounts: `packages/auth/src/index.ts`

A request reads, hashes (in a slot of its process, of which there are `HashSlots`) and
stores; `pc` says at which of these it is. A hash is a password and the number of the
hashing: salted hashes are equal only if one is a copy of the other. `Login`/
`StoreSession`, `Ask`/`ChangePassword`/`StorePassword`, `Setup`/`Recheck`/`Provision`
and `SetAdmin`/`Reset` are the methods; `Fail` ends any of them in any state,
`EndSession` is a logout or an expiry. The limits of `login_limits` are in `Limits`:
all they do here is refuse a request, which `Fail` covers.

### Limits, LimiterLife: `login_limits`, and `connection.ts`

A request counts itself under its keys, one statement each, in a `transaction`:
`Connect` takes a connection of its process, `Count` locks and counts a row, `Commit`
ends it. `NoConnection` is the timeout of the pool, `Conflict` a deadlock or a timeout of
a lock, after which the transaction is rolled back, gives its connection back and is run
again (`Again`), at most `MaxAttempts` times; `Break` is any other error before `COMMIT`,
`CommitLost` one after it. `Counted` is the `INSERT ... ON DUPLICATE KEY UPDATE`, the same
in `login` and in `limit`; `Cleanup` deletes rows that have expired. `rows` has what is
not committed yet, `committed` what others see.

`LimiterLife` has no connections, locks, retries or processes: a request is counted once
under all of its keys and answered in the same step, or not counted and refused by a
failure. A window may end between the statement and `COMMIT`, and the answer still be
given by the old one; that is why a count may go on in a window that is over.

### Archive, Cleanup, Retention: `retention.ts`

One pass is one transaction of many statements. The two modules are its two halves,
which touch different tables: `Archive` lines 38-87 (summaries and checks), `Cleanup`
lines 88-94 (deliveries, jobs, events, incidents). `sweep` is the pass under way; rows it
has selected or deleted stay locked until it commits or fails (`AbortSweep`).

- `Archive`: `StartCheck`, `EndCheck`, `Edit`, `DeleteMonitor` are what the rest of the
  program does to `check_runs`; the pass locks a batch of old checks, adds them to the
  summaries of their hours, deletes them, then deletes old summaries. `removed` is a
  history variable.
- `Cleanup`: each `DELETE` is a step that sees what others have committed by then.
  `Monitoring` and `Notifying` make, retry and settle the rows it looks at.
- `Retention` is a pass of both. No statement of one half reads or writes a table of the
  other, and a failure undoes both, so a behaviour of the pass is one of each half; to
  keep it checkable a behaviour here is one of one half, chosen in `Init`.

### Migrations: `migrations.ts`

Processes of several releases start, take the advisory lock, read `schema_migrations`,
run the statements of each missing migration one by one (DDL commits at once) and record
it; others only check that the schema is theirs. `Crash` is possible anywhere, `Restart`
follows. A statement creates what is not there or drops what is; a checksum stands for
the statements. What the authors of migrations have to keep to, and no code checks, is
stated as assumptions on `Deployments`: `Restartable`, `Compatible` and `Rebuilt`.

### Client: `apps/web`, and the routes it meets

A tab has an `identity` it shows, a page of one monitor that is `open` or not, the `data`
it last loaded and a `dialog` that keeps what it was opened with. `loads` are polls in
flight (`useResource`: one at a time, aborted when replaced or when the page is left),
`posts` the mutations, each with the cookie and the CSRF token it was sent with and what
of the page its answer will still find (`reach`). `Refuse` and `Accept` are the
`onRequest` hook and the handlers; `ReadRow` and `ReadResolvers` the two reads of
`inspect`, between which the monitor may change. Other tabs sign in with the same cookie,
other browsers edit, sessions end, `Lose` drops any request or answer.

Abstractions: a session's number stands for its token and its CSRF token; a value of the
configuration is named by the revision that wrote it; an aborted load is dropped at once,
but for a 401 whose body is being read, which still signs the tab out.

### How they compose

`Scheduler` and `Detector` extend `Evaluator`, `Detector` also `Records`, so that what a
response says goes through `query`, `consensus` and `evaluate` to the status of a monitor.
`Retention` instantiates both of its halves. The others are models of their own that
represent their neighbours by what these do to the shared rows: `RouteJob` in `Scheduler`
against the whole of routing in `Notifications`, `leases` in `Worker` against `claimDue`,
`complete` and `fail` in `Scheduler`, `EndCheck` and `Record` in the two halves of
retention against `complete`. Together in one state space they would be far beyond TLC;
each interface is a handful of rows that are changed in single transactions.

## The runs

| Run | Module, configuration | Instance | Shows |
| --- | --- | --- | --- |
| `detector` | MCDetector | seven configurations with one to three resolvers and thresholds of 1 to 3; five responses; six checks; every response of up to three records about three names and one text that is none, and the five | what is read of a response is what it tells of the hostname (`AnswersAreTold`); the incident flag (`IncidentFollowsHistory`), the baseline and the candidate (`BaselineFollowsHistory`) and the status (`StatusFollowsHistory`) are what the history says, through resets and edits |
| `scheduler_workers` | MCScheduler, MCSchedulerWorkers.cfg | one monitor, two workers, three claims, a clock of five ticks, a claim that may use a clock one tick old | `RunningIffLeased`, `ImplementsLife` (`MonitorLife`), `RecheckOnCadence` when workers race, crash, are late or lose answers and operators pause and resume |
| `scheduler_edits` | MCScheduler, MCSchedulerEdits.cfg | one monitor, a worker, a client, two claims, three revisions, configurations that differ in the question or in a threshold | `TypeOK`, `IncidentConsistent`, `OldQuestionIsSilent`, `RevisionNamesConfig`, `StreaksAreCurrent`, `ImplementsLife` when the monitor is edited, retimed, paused, acknowledged and deleted during a check |
| `worker` | MCWorker | three claims of two queries of one tick, over UDP, TCP or both, two at a time, one database error | `TypeOK` (with the concurrency), `QueriesKeepTheirTime`, `StopHoldsNothing`, `ShutdownIsNoAnswer`; with fairness `StopsInTheEnd`, `ClaimsAreSettled` |
| `notifications_delivery` | MCNotifications, MCNotificationsDelivery.cfg | two dispatchers, one job, rule and channel, two attempts, one manual retry | `TypeOK` (nothing is stranded), `ImplementsLife` (`DeliveryLife`); with fairness `NothingLingers` |
| `notifications_routing` | MCNotifications, MCNotificationsRouting.cfg | two monitors, two jobs in one batch, rules that name one or both monitors | `NoReplay`, `WithdrawnStaysSilent` while monitors are edited and deleted |
| `notifications_disabled` | MCNotifications, MCNotificationsDisabled.cfg | one dispatcher, one job, rule and channel | a violation: see "A finding" |
| `accounts` | MCAccounts | two users, two passwords, two processes with one slot each, two requests, three hashes | `TypeOK` (with the slots), `OneInitialAccount`, `SessionsFollowPassword`, `ChangesAreAuthorized` |
| `limits` | MCLimits | three logins under one address and one email, two of them on one connection of one process, two attempts of a transaction, windows of two ticks, maxima of 2 and 1 | `ImplementsLimiter` (`LimiterLife`); with fairness `NobodyWaitsForEver` |
| `retention` | MCRetention | one failing pass, batches of one; one monitor, two checks, hours of two ticks, two revisions; one incident, two events with jobs and deliveries | `ArchiveIsExact`, `ReferencesHold`, `LiveRowsStay`; with fairness `HistoryGoes` |
| `migrations` | MCMigrations | three migrations or four of the shapes that the program has, two releases, three processes of which two migrate, three crashes | `SchemaIsAPrefix`, `SchemaIsServed`; with fairness `LastReleaseServes` |
| `client` | MCClient | one tab, two sessions of an administrator and a viewer, two revisions, one mutation in flight, edits by others | `EditsAreNotLost`, `ActsAsShown`; with fairness, `PagesKeepUp` |

The comment above each property says what it means and which lines it is about.

### Bounds

Every bound is a constant whose name says so (`MaxTime`, `MaxRevision`, `MaxErrors` ...).
They are chosen so that what each property forbids could happen if the code were a little
different, which the mutants confirm: each property fails under its mutant in the same
instance.

- The actions of a monitor touch the rows of that monitor only, so one monitor is enough
  for the scheduler; two would only interleave. The proofs do not assume it. Routing
  puts the jobs of several monitors in one batch, and deleting a monitor takes it out of
  the rules that name it, so there are two monitors in that run.
- Three claims allow a late worker, the one that took over from it and the next check.
  Five ticks cover a lease (one timeout and the grace) that ends and two slots of the
  cadence; a claim with a stale clock needs one tick of lag.
- Six checks are enough for a failure streak of two or three, a recovery of the same
  length and a relapse, and for a candidate that is interrupted.
- Two attempts and one retry reach both the limit and its reset; the claim, its loss and
  its successor need three tokens.
- One failing pass and one that succeeds are all that passes can be to a row; a batch of
  one makes every pass leave something to the next.
- Aliases: a chain of two, its three orders and its circles fit in three records and three
  names; a pass of the loop adds at least one name or is the last.
- A query of one tick has its timer run out before, at and after the retry over TCP.
- Two attempts of a transaction, three in the code, have one retry to go wrong; two rows
  are the keys of a login, and a tick between their statements sets their windows apart.
- Hashes: two that are in use and one that replaces one of them while the other is being
  verified.

Symmetry (`TokenSymmetry`, `WorkerSymmetry`, `Symmetric`) is used only in runs whose
properties are invariants and action properties, and only over identities that the
module treats alike.

`CHECK_DEADLOCK FALSE` is set where a behaviour of the model really ends: in the two runs
of `Scheduler`, when the clock, the claims and the revisions are used up; in `worker`,
when the process has stopped and every claim is settled; in `migrations`, when every
process serves or was refused. In all the other runs TLC also shows that nothing blocks.

### Fairness

Only what the code's loops and MariaDB give:

- `Worker`: the loop goes on (`WF Looping`), the timer of the drain fires (`WF Deadline`),
  a check goes on with what it awaited (`WF Executing`; calls to the database have a
  timeout). A resolver need not answer. `ClaimsAreSettled` alone assumes that time
  passes in a query and its timer fires (`TimersFire`), and says so in its formula.
- `Notifications`: one dispatcher keeps running, since its loop catches every error and
  sleeps 500 ms (`service.ts:123-133`); the others may stop wherever they are. Strong
  fairness of the steps of routing and of `Claim`: a transaction that is begun over and
  over succeeds at last although others, or errors, get in its way. MariaDB rolls back
  what a dead connection had open (`WF Unlocking`), and time passes (`Elapse`, `Expire`).
- `Retention`: `Retention.run` tries for ever (`WF` of `Sweeping` of either half), time
  passes.
- `Limits`: every await of a request ends, by the timeout of the pool, of the lock or of a
  query if by nothing else (`WF Handle`), and time passes. Nobody is assumed to stop trying.
- `Migrations`: processes run and are started again by the orchestrator; who keeps asking
  for the advisory lock gets it some time (`SF Lock`).
- `Client`: a tab in the foreground polls every ten seconds (`WF Poll`; a hidden one does
  not, and it is not in `Watched`), and some of the requests it repeats get through
  (`SF` of the two reads and of `Settle`).

`detector`, the runs of `scheduler`, `accounts`, `notifications_routing` and
`notifications_disabled` check safety only and assume none.

### A finding

`docs/API.md:126` says that disabling a channel cancels its pending and claimed deliveries
and that enabling it again does not replay them, so a disabled channel has nothing
waiting. `routePending` reads the channels without a lock (`service.ts:61`) and inserts
deliveries later in its transaction (`service.ts:73`). If the channel is disabled in
between, the delivery is inserted after `setChannelEnabled` has cancelled all there were,
and stays `PENDING` for a disabled channel: `send` cancels it if it gets there while the
channel is off, and sends it if the channel is enabled again first. The run
`notifications_disabled` ends with that behaviour.

## The proofs

Each theorem holds for all values of the constants that satisfy the named assumptions of
its module: any number of monitors, workers, clients, requests, rules, resolvers, any
thresholds, limits and bounds. TLC evaluates every assumption in the runs.

| Module | Theorem | States |
| --- | --- | --- |
| `SchedulerProofs` | `TypeCorrect` | `Spec => []TypeOK` |
| | `NextSlotIsTheFirst` | the next slot is after the end of the check and, unless the check ran ahead of its slot, at most one interval after it |
| | `LeasesAndRunsAgree` | `Spec => []RunningIffLeased` |
| | `IncidentsAgree` | `Spec => []IncidentConsistent` |
| | `FinishedRunsAreFinal` | `Spec => FinishedRunsStay` |
| | `RevisionsNameConfigs` | `Spec => []RevisionNamesConfig` |
| | `ChecksKeepCadence` | `Spec => RecheckOnCadence` |
| | `StreaksFollowThresholds` | `Spec => []StreaksAreCurrent` |
| | `OldQuestionsAreSilent` | `Spec => []OldQuestionIsSilent` |
| | `SchedulerImplementsLife` | `Spec => ImplementsLife` |
| `DetectorProofs` | `ResponsesAreUnderstood` | `Spec => []AnswersAreTold` |
| | `IncidentsFollowHistory` | `Spec => []IncidentFollowsHistory` |
| | `BaselinesFollowHistory` | `Spec => []BaselineFollowsHistory` |
| | `StatusesFollowHistory` | `Spec => []StatusFollowsHistory` |
| `WorkerProofs` | `TypeCorrect` | `Spec => []TypeOK` |
| | `StopsEmptyHanded` | `Spec => []StopHoldsNothing` |
| | `QueriesEndInTime` | `Spec => []QueriesKeepTheirTime` |
| | `CutQueriesAreNoAnswers` | `Spec => []ShutdownIsNoAnswer` |
| `NotificationsProofs` | `TypeCorrect` | `Spec => []TypeOK` |
| | `NothingIsReplayed` | `Spec => []NoReplay` |
| | `WithdrawnIsSilent` | `Spec => WithdrawnStaysSilent` |
| | `NotificationsImplementLife` | `Spec => ImplementsLife` |
| `AccountsProofs` | `TypeCorrect` | `Spec => []TypeOK` |
| | `SessionsEndWithPassword` | `Spec => []SessionsFollowPassword` |
| | `SetupHappensOnce` | `Spec => []OneInitialAccount` |
| | `OnlyAuthorizedChanges` | `Spec => ChangesAreAuthorized` |
| `DatabaseProofs` | `LimitsImplementLimiter` | `LimitsSpec => ImplementsLimiter` |
| | `MigrationsFollowARelease` | `Spec => []History`: one process migrates, what is recorded is how a release begins, who migrates has compared what he passed |
| | `SchemaStaysAPrefix` | `Spec => []SchemaIsAPrefix` |
| | `SchemaStaysServed` | `Spec => []SchemaIsServed` |
| `RetentionProofs` | `SummariesAreExact` | `Spec => []ArchiveIsExact` |
| | `NothingDangles` | `Spec => []ReferencesHold` |
| | `LiveRowsAreKept` | `Spec => LiveRowsStay` |
| `ClientProofs` | `EditsFollowWhatIsShown` | `Spec => EditsAreNotLost` |
| | `WhatIsDoneIsAsShown` | `Spec => ActsAsShown` |
| | `PagesDoNotGoBack` | `Spec => PagesGoForward`, the safety half of `PagesKeepUp` |

### Assumptions

- `None` (`Nobody` in `Limits`) is not one of the identifiers, hashes or rows: it stands for SQL's `NULL`
  (`NoneAssumption`, `IdsAssumption`, `NamesAssumption`, `HashesAssumption`,
  `RowsAssumption`).
- What the code validates before it stores or uses it: intervals, thresholds, limits and
  windows are positive, resolvers are a finite set that is not empty
  (`ConfigsAssumption`, `ConfigsHaveThresholds`, `ConfigsNameResolvers`,
  `DelaysAssumption`, `PolicyAssumption`, `OptionsAssumption`, `SlotsAssumption`,
  `LimitsAssumption`). A failure is a possible answer (`AnswersAssumption`).
- There are finitely many requests (`Accounts`), and a request counts itself under
  different keys: an address and an account, whose keys have different prefixes
  (`Limits`). `claimDue` finds finitely many due monitors (`Worker`).
- The bounds that keep TLC finite are natural numbers, any ones (`BoundsAssumption`,
  `BoundAssumption`, `MaxChecksAssumption`).
- A response has finitely many records (`ResponsesHaveRecords`): what has been parsed is an
  array.
- `Deployable`: a release is a sequence of migrations that are `Restartable`. A migration
  makes each name once, and if it removes one, it does so first and makes it again at its
  end. This is what "Each statement is restartable" (`migrations.ts:4`) comes to for
  migrations of more than one statement; versions 1 to 6 have it, and without it a
  migration that died between two statements could undo, when it is run again, what a later
  statement of it did.
- `Compatible`: a later release removes nothing that an older one makes
  (`docs/DEPLOYMENT.md:137`). Versions 2 and 3 replace an index of the version before, so
  an update across them is not of this kind; it is one from version 3 on, and removals in
  what both releases have are allowed.
- `Rebuilt`: a migration that was edited before it was applied makes anew what its other
  form makes. "Never edit an applied migration" (`migrations.ts:5`) is checked by the code
  (the checksum); that one which is *being* applied, half done, is not edited, or is edited
  like this, nobody checks, and `SchemaIsServed` is false without it: `CREATE ... IF NOT
  EXISTS` would pass over the other form's work. In a rolling update there is nothing to
  assume, since equal versions are equal.

`SchemaStaysAPrefix` uses the first of the three alone (`DeploymentsAssumption`),
`SchemaStaysServed` all of them (`CompatibleAssumption`, `RebuiltAssumption`).

### The argument

*Scheduler.*

1. `TypeOK` is inductive as it stands. The lemmas on `Consensus`, `Evaluate`,
   `ResetStreaks`, `RunsEnded`, `Released` and the outbox say that each returns what its
   table may hold; the theorem then goes through the actions, one step each.
2. `RunningIffLeased` is not inductive by itself: a claim takes a fresh token, and one
   must know that a token that was never issued has no run and no monitor, and that the
   row of a monitor that is absent or deleted has neither a lease nor a state. That is
   `Blank`, and `LeaseInv == TypeOK /\ Blank /\ RunningIffLeased` is inductive. Three
   lemmas carry it: `LeaseTaken` (a transaction that removes a lease ends its run),
   `LeaseClaimed` (claiming ends the run of an expired lease and starts the new one) and
   `LeaseUntouched` (all the rest).
3. `IncidentConsistent` needs `LeaseInv` too: `complete` writes the incident under the
   token of its claim, and that this is an incident of the same monitor follows only from
   the run's being the one of the lease; a deletion must leave nothing behind (`Blank`).
   `CommitIncident` treats `complete`, by whether the check opens, resolves or leaves the
   incident, which is what `IncidentEvents` says about `Evaluate`.
4. `FinishedRunsStay` follows from `RunningIffLeased`: what ends a run ends that of a
   lease or finds nothing `RUNNING`, and a claim issues unissued tokens only.
5. `RevisionNamesConfig` is about clients and workers whose revision is current; the
   invariant `Remembered` is about all: a remembered revision is not later than that of
   the row, and the same one names the same configuration. From it follows
   `StreaksAreCurrent`, since a check is evaluated against the configuration in force.
6. `OldQuestionIsSilent` needs `Leased`: as long as the lease of a run stands, the monitor
   has the revision the run was started with; and `HistoryBegun`: the question was last
   changed at that revision or before.
7. `SchedulerImplementsLife` maps each step to a step of `MonitorLife` or to a stutter; it
   uses `IncidentInv`, and that an event is about an incident of its own monitor
   (`EventsAgree`), so that a deletion removes exactly what was told about it.

*Detector.* `MajoritiesMeet` (two majorities of the same resolvers intersect) makes
`Consensus`, which takes the first value with a majority, agree with `Agreed`, which
names no order. The invariant says what each counter counts: `failures` and `successes`
are the lengths of the streaks at the end of the history, cut off at their thresholds
(`Streaks`), and `candidateCount` that of the run of the candidate (`Candidates`), where a
value that is not the baseline and is being seen must be the candidate. `StreaksGrow` says
what a streak that ends with the new check says of the one before it. The incident follows
by the two kinds of a check: a bad one only adds an opening to the history, a good one
only a resolution.

That a response is understood is about `Owners`, as many passes over the records as there
are records, each a fold. The library's induction theorems take an operator, which the
provers cannot instantiate; `SetInduction` takes a set of numbers instead, and is proved
from the theorem that an injection of a finite set into itself is onto. `LastExists` and
`FoldExists` then say that the function that a fold is `CHOOSE`n to be exists and what it
makes of each beginning of a sequence (`FollowIsFold`). A pass adds where the aliases of what it was given lead to, and nothing that does not
follow (`PassFollows`); as long as something is missing each pass adds a name, so after as
many as there are records nothing is (`OwnersAreClosed`), and `Owners` is the least set
that is closed under the aliases (`OwnersAreReached`).

*Worker.* `StopHoldsNothing` and `ShutdownIsNoAnswer` need to know where each check is
(`Checks`: what it has done, by its `pc` and by what became of the lease) and where the
loop is (`Loop`: what it has claimed and not yet handled).

*Notifications.* The invariant follows what a dispatcher read and has not used yet:
`Snapshots` (what it read of rules and channels was true then), `Locks` (the jobs it
routes are locked by it alone and still `PENDING`, so nobody withdraws them meanwhile),
`Leases` (the only row that can have the token of a claim is the one that was claimed, in
the same attempt), `Outbox` (deliveries belong to routed jobs and, if theirs is withdrawn,
are over) and `Counted` (requests made and still to be made are attempts that were
granted). `Grounded` is `NoReplay` with the rule's scope, for what is inserted.

*Accounts.* `Stages` says what a request has read and computed by the stage it is in;
`OneProvision` that whoever is about to provision has the lock and found no account.

*Limits.* `Verdicts` is the point: the answer of a transaction that has not committed
comes from `rows`, which differ from what is committed by one count of the request that
holds the lock and by nothing else (`Locked`, `OneAttempt`), so that `COMMIT` is the one
step of the limiter.

*Migrations.* `Run` and `Result` are folds, treated in the same way: `Begun(s, m, k)` is what
the first `k` statements of `m` make of `s`. Two lemmas are the point of "restartable".
`PassesOver`: running a migration after one of its own statements, or after one of a
migration it builds anew, makes what running it alone makes. `StaysInside`: a statement
that is executed again, on a schema in which the migration was done at least up to it,
leads to a schema in which it is done up to some statement, at least that one. `History`
is about who holds the lock and what each process has compared; then

- `Halfway` (for `SchemaIsAPrefix`): the schema is `Begun` of the next migration, and who
  runs it is not behind. `SchemaIsAPrefix` itself says nothing of who runs, so a record
  could come too early;
- `Resumable` and `Kept` (for `SchemaIsServed`): whoever goes on or begins again makes what
  he would make of a clean schema, and what a recorded release makes stays. When a
  migration is recorded, the schema *is* the result of what is recorded (`RecordKeeps`);
  what a later one does on the way takes nothing away, which is `Compatible`.

*Retention.* `ArchiveInv` says that what a pass has selected is there and has ended
(`Selected`) and that what was removed is gone (`Gone`), so that nothing is added twice;
`Finite` is there because a summary counts sets of checks. `CleanupInv` has the references
row by row (`References`), also those between monitors, and says of what a pass deletes
that it is over and that whatever refers to it is deleted too (`Doomed`), table by table in
the order of the statements (`InOrder`).

*Client.* `EditsAreNotLost` is about the moment a mutation is accepted; the invariant is
about all that a page, a dialog, a load or a mutation in flight remembers (`Sound`): it is
not later than the row, and if it has the revision of the row, it is the row with its
resolvers (`Known`). For a load that has read the row and not yet the resolvers that is
`Past`; that it finds them only if nothing was written since makes it `Known`. Rows only
move on (`Moved`, `KnownStays`), so each action needs to be looked at from the row before
the step alone (`SoundAfter`). `OneLoad` and `Attached`, that dialogs, loads and whoever
waits for an answer go with their page, are needed for what a page starts anew; from
`OneLoad` it follows that pages do not go back.

### Only model-checked

- All liveness, and `ENABLED`: out of the prover's reach. That is `StopsInTheEnd`,
  `ClaimsAreSettled`, `NothingLingers`, `NobodyWaitsForEver`, `HistoryGoes`,
  `LastReleaseServes` and, of `PagesKeepUp`, that a page which stays open catches up.

Every invariant, action property and refinement that a passing run checks is stated by a
theorem.

## What is not modelled

- **Packets**: encoding, the identifiers of queries and the assembly of a TCP stream; a
  response that decodes to something else is an invalid one.
- **Operations metrics**: reads only. Its cache is one assignment of a shared promise, and
  nothing in the program acts on what it says.
- **Retention** of audit events, sessions, attempts and workers, which nothing refers to.
- **Connections**: addresses and secrets. Outside of `Limits` a transaction is atomic; the
  lost answer to `COMMIT` is modelled where it matters.
- **HTTP API, CLI**: the hook and the routes of one monitor are in `Client`; the others
  validate input and call one method each.
- **Web client**: pages that only list, forms for channels and rules, layout.
- **Packaging**: images, Compose, Swarm, Helm, scripts: no program logic.
- Encryption of channel secrets, the texts of messages, parsing of records and input
  validation: data that no property distinguishes.

## Keeping it up

The shared state of the code is modelled, and each safety property of the runs has its
theorem. After a change of the code: the definitions that `PROJECT.json` maps to the lines
that changed come first, then the run of their module, then its theorems, where the step
that fails names the action. A new migration belongs into the deployments of `MCMigrations`
if it is of a shape that is not there yet; TLC then says whether it is `Restartable` and
`Compatible`. A new kind of reader of responses belongs into `Records` and `Told`.
