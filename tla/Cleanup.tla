------------------------------- MODULE Cleanup -------------------------------
(***************************************************************************)
(* Old notifications, events and incidents: packages/database/src/         *)
(* retention.ts, lines 88-94, among the transactions that make and change  *)
(* those rows.  Archive models the rest of the same pass, on other tables. *)
(*                                                                         *)
(* A pass is one transaction of several statements under READ COMMITTED.   *)
(* Every statement is a step: it sees what the others have committed by    *)
(* then and what the pass itself has deleted, and the rows it deletes stay *)
(* locked until the pass commits or fails.                                 *)
(*                                                                         *)
(* Data.  An event, its job (one per event) and the delivery of the job to *)
(* the one channel share an identity.  The tables that nothing refers to   *)
(* (audit, sessions, limits, workers) are left out.                        *)
(***************************************************************************)
EXTENDS Naturals, FiniteSets

CONSTANTS
    Monitors, Incidents, Events, None,
    BatchSize,     \* config.batchSize: rows of one table that a pass takes
    EventAge, IncidentAge, DeliveryAge,
                   \* config.eventDays, incidentDays and deliveryDays, in ticks
    MaxTime, MaxFailures
                   \* bounds: clock, passes that fail

\* Retention states what is assumed of them.

VARIABLES
    now,        \* CURRENT_TIMESTAMP(3)
    active,     \* monitor_states.active_incident_id of each monitor, or None
    incidents,  \* table incidents
    events,     \* table dns_events
    jobs,       \* table notification_jobs
    deliveries, \* table notification_deliveries
    sweep,      \* the pass under way: its clock, its next statement, what it has deleted
    failures    \* passes that failed so far

tables == <<active, incidents, events, jobs, deliveries>>
vars == <<now, tables, sweep, failures>>

Terminal == {"SENT", "CANCELLED", "FAILED"}

\* The columns that matter here.
IncidentRow == [monitor : Monitors, status : {"OPEN", "ACKNOWLEDGED", "RESOLVED"},
                at : Nat \cup {None}]
EventRow == [monitor : Monitors, incident : Incidents \cup {None}, at : Nat]
JobRow == [status : {"PENDING", "ROUTED", "IGNORED", "CANCELLED"}, at : Nat]
DeliveryRow == [status : Terminal \cup {"PENDING"}, at : Nat]

\* Rows of a table that exist.
Rows(table) == {id \in DOMAIN table : table[id] # None}

EventsOf(m) == {e \in Rows(events) : events[e].monitor = m}

NoSweep == [pc |-> "NONE", now |-> 0, deliveries |-> {}, jobs |-> {}, events |-> {},
            incidents |-> {}]

Init ==
    /\ now = 0
    /\ active = [m \in Monitors |-> None]
    /\ incidents = [i \in Incidents |-> None]
    /\ events = [e \in Events |-> None]
    /\ jobs = [e \in Events |-> None]
    /\ deliveries = [e \in Events |-> None]
    /\ sweep = NoSweep
    /\ failures = 0

(************************ the rest of the program **************************)

\* Rows the pass has locked; whoever wants to change them waits for its end.
Locked == sweep.deliveries \cup sweep.jobs \cup sweep.events

\* An event and its job; e is a new identity.
Record(m, i, e) ==
    /\ events[e] = None
    /\ events' = [events EXCEPT ![e] = [monitor |-> m, incident |-> i, at |-> now]]
    /\ jobs' = [jobs EXCEPT ![e] = [status |-> "PENDING", at |-> now]]

\* What complete may find: a change, an incident that opens, an incident that ends.
Change(m, e) ==
    /\ Record(m, active[m], e)
    /\ UNCHANGED <<now, active, incidents, deliveries, sweep, failures>>

Open(m, i, e) ==
    /\ active[m] = None /\ incidents[i] = None
    /\ Record(m, i, e)
    /\ incidents' = [incidents EXCEPT ![i] = [monitor |-> m, status |-> "OPEN", at |-> None]]
    /\ active' = [active EXCEPT ![m] = i]
    /\ UNCHANGED <<now, deliveries, sweep, failures>>

Ended(i) == [incidents EXCEPT ![i].status = "RESOLVED", ![i].at = now]

Resolve(m, e) ==
    LET i == active[m]
    IN
    /\ i # None
    /\ Record(m, i, e)
    /\ incidents' = Ended(i)
    /\ active' = [active EXCEPT ![m] = None]
    /\ UNCHANGED <<now, deliveries, sweep, failures>>

Acknowledge(i) ==
    /\ i \in Rows(incidents) /\ incidents[i].status = "OPEN"
    /\ incidents' = [incidents EXCEPT ![i].status = "ACKNOWLEDGED"]
    /\ UNCHANGED <<now, active, events, jobs, deliveries, sweep, failures>>

\* updateMonitor with another question: the incident is closed, its notifications are
\* cancelled, and an event that has no job records the edit.
Redefine(m, e) ==
    LET i == active[m]
        mine == EventsOf(m)
    IN
    /\ events[e] = None
    /\ mine \cap Locked = {}
    /\ incidents' = IF i = None THEN incidents ELSE Ended(i)
    /\ active' = [active EXCEPT ![m] = None]
    /\ events' = [events EXCEPT ![e] = [monitor |-> m, incident |-> i, at |-> now]]
    /\ jobs' = [j \in Events |-> IF j \in mine \cap Rows(jobs)
                                 THEN [jobs[j] EXCEPT !.status = "CANCELLED"] ELSE jobs[j]]
    /\ deliveries' = [d \in Events |->
           IF d \in mine \cap Rows(deliveries) /\ deliveries[d].status # "SENT"
           THEN [deliveries[d] EXCEPT !.status = "CANCELLED"] ELSE deliveries[d]]
    /\ UNCHANGED <<now, sweep, failures>>

Without(table, gone) == [id \in DOMAIN table |-> IF id \in gone THEN None ELSE table[id]]

\* deleteMonitor, with everything it has.  The monitor is then as good as a new one.
DeleteMonitor(m) ==
    LET mine == EventsOf(m)
        hers == {i \in Rows(incidents) : incidents[i].monitor = m}
    IN
    /\ mine \cap Locked = {} /\ hers \cap sweep.incidents = {}
    /\ active' = [active EXCEPT ![m] = None]
    /\ incidents' = Without(incidents, hers)
    /\ events' = Without(events, mine)
    /\ jobs' = Without(jobs, mine)
    /\ deliveries' = Without(deliveries, mine)
    /\ UNCHANGED <<now, sweep, failures>>

\* routePending: a delivery, or none that any rule asks for.
Route(e) ==
    /\ e \in Rows(jobs) \ Locked /\ jobs[e].status = "PENDING"
    /\ \/ /\ jobs' = [jobs EXCEPT ![e].status = "ROUTED"]
          /\ deliveries' = [deliveries EXCEPT ![e] = [status |-> "PENDING", at |-> now]]
       \/ jobs' = [jobs EXCEPT ![e].status = "IGNORED"] /\ UNCHANGED deliveries
    /\ UNCHANGED <<now, active, incidents, events, sweep, failures>>

\* A delivery is sent, given up or cancelled.  PENDING stands for PROCESSING as well.
Settle(e, status) ==
    /\ e \in Rows(deliveries) \ Locked /\ deliveries[e].status = "PENDING"
    /\ deliveries' = [deliveries EXCEPT ![e] = [status |-> status, at |-> now]]
    /\ UNCHANGED <<now, active, incidents, events, jobs, sweep, failures>>

Retry(e) ==
    /\ e \in Rows(deliveries) \ Locked /\ deliveries[e].status = "FAILED"
    /\ deliveries' = [deliveries EXCEPT ![e] = [status |-> "PENDING", at |-> now]]
    /\ UNCHANGED <<now, active, incidents, events, jobs, sweep, failures>>

(******************************** a pass ***********************************)

\* time < before(now, age)
Older(time, age) == time + age < sweep.now

\* DELETE ... LIMIT: all the rows there are, or as many as the limit allows.
Batches(rows) ==
    LET size == Cardinality(rows)
    IN {b \in SUBSET rows : Cardinality(b) = IF size < BatchSize THEN size ELSE BatchSize}

\* One DELETE: a batch of the rows that are old and not needed any more.
Prune(pc, table, rows, next) ==
    /\ sweep.pc = pc
    /\ \E b \in Batches(rows) : sweep' = [sweep EXCEPT !.pc = next, ![table] = b]
    /\ UNCHANGED <<now, tables, failures>>

\* Mutant of OldDeliveries: whether they are settled or not.
OldOrPending == {e \in Rows(deliveries) : Older(deliveries[e].at, DeliveryAge)}

\* COALESCE(sent_at, next_attempt_at)
OldDeliveries ==
    {e \in Rows(deliveries) :
        deliveries[e].status \in Terminal /\ Older(deliveries[e].at, DeliveryAge)}

\* Mutant of OldJobs: nobody looks for deliveries.
OldJobsWithDeliveries ==
    {e \in Rows(jobs) : jobs[e].status # "PENDING" /\ Older(jobs[e].at, DeliveryAge)}

OldJobs ==
    {e \in Rows(jobs) \ (Rows(deliveries) \ sweep.deliveries) :
        jobs[e].status # "PENDING" /\ Older(jobs[e].at, DeliveryAge)}

Resolved(i) == i \in Rows(incidents) /\ incidents[i].status = "RESOLVED"

\* Mutant of OldEvents: an event waits for its incident, which waits for its events.
OldEventsAlone ==
    {e \in Rows(events) \ (Rows(jobs) \ sweep.jobs) :
        Older(events[e].at, EventAge) /\ events[e].incident \notin Rows(incidents)}

OldEvents ==
    {e \in Rows(events) \ (Rows(jobs) \ sweep.jobs) :
        /\ Older(events[e].at, EventAge)
        /\ events[e].incident = None \/ Resolved(events[e].incident)}

OldIncidents ==
    {i \in Rows(incidents) :
        /\ Resolved(i) /\ Older(incidents[i].at, IncidentAge)
        /\ \A e \in Rows(events) \ sweep.events : events[e].incident # i
        /\ \A m \in Monitors : active[m] # i}

\* Whether a pass is due is in Archive.
StartSweep ==
    /\ sweep = NoSweep
    /\ sweep' = [sweep EXCEPT !.pc = "DELIVERIES", !.now = now]
    /\ UNCHANGED <<now, tables, failures>>

PruneDeliveries == Prune("DELIVERIES", "deliveries", OldDeliveries, "JOBS")
PruneJobs == Prune("JOBS", "jobs", OldJobs, "EVENTS")
PruneEvents == Prune("EVENTS", "events", OldEvents, "INCIDENTS")
PruneIncidents == Prune("INCIDENTS", "incidents", OldIncidents, "COMMIT")

CommitSweep ==
    /\ sweep.pc = "COMMIT"
    /\ deliveries' = Without(deliveries, sweep.deliveries)
    /\ jobs' = Without(jobs, sweep.jobs)
    /\ events' = Without(events, sweep.events)
    /\ incidents' = Without(incidents, sweep.incidents)
    /\ sweep' = NoSweep
    /\ UNCHANGED <<now, active, failures>>

\* An error of a statement, or the death of the worker: everything is rolled back.
AbortSweep ==
    /\ sweep # NoSweep /\ failures < MaxFailures
    /\ sweep' = NoSweep
    /\ failures' = failures + 1
    /\ UNCHANGED <<now, tables>>

Tick ==
    /\ now < MaxTime
    /\ now' = now + 1
    /\ UNCHANGED <<tables, sweep, failures>>

Sweeping ==
    \/ StartSweep \/ PruneDeliveries \/ PruneJobs \/ PruneEvents \/ PruneIncidents
    \/ CommitSweep

Monitoring ==
    \/ \E m \in Monitors, e \in Events :
           Change(m, e) \/ Resolve(m, e) \/ Redefine(m, e) \/ \E i \in Incidents : Open(m, i, e)
    \/ \E m \in Monitors : DeleteMonitor(m)
    \/ \E i \in Incidents : Acknowledge(i)

Notifying ==
    \E e \in Events : Route(e) \/ Retry(e) \/ \E status \in Terminal : Settle(e, status)

Next == Sweeping \/ AbortSweep \/ Monitoring \/ Notifying \/ Tick

Spec == Init /\ [][Next]_vars

\* Retention.run tries for ever.
FairSpec == Spec /\ WF_vars(Sweeping) /\ WF_vars(Tick)

-----------------------------------------------------------------------------
(******************************* properties ********************************)

\* Whatever else is committed between its statements, a pass deletes no row that another
\* row still refers to: the database would refuse it, and the same pass would fail again
\* and again (retention.ts:88-94).
ReferencesHold ==
    /\ Rows(deliveries) \subseteq Rows(jobs)
    /\ Rows(jobs) \subseteq Rows(events)
    /\ \A e \in Rows(events) : events[e].incident \in Rows(incidents) \cup {None}
    /\ \A m \in Monitors : active[m] \in Rows(incidents) \cup {None}

\* What is still in progress is not history: only the deletion of its monitor removes an
\* incident that is not resolved, an event of one, a job that is not routed or a delivery
\* that may still be sent, also when they became so after the pass began
\* (retention.ts:88-94; RETENTION.md:32).
LiveRowsStay ==
    [][sweep # NoSweep /\ sweep' = NoSweep =>
           /\ \A i \in Rows(incidents) : ~Resolved(i) => i \in Rows(incidents')
           /\ \A e \in Rows(events) :
                  /\ events[e].incident # None /\ ~Resolved(events[e].incident)
                         => e \in Rows(events')
                  /\ e \in Rows(jobs) /\ jobs[e].status = "PENDING" => e \in Rows(jobs')
                  /\ e \in Rows(deliveries) /\ deliveries[e].status = "PENDING"
                         => e \in Rows(deliveries')]_vars

\* Clean-up catches up: an incident that is over and whose notifications are settled goes
\* in the end, with all that refers to it, or its notifications are retried: rows do not
\* keep each other for ever (retention.ts:88-94, 104-111).  In the model: if they get old
\* before its last tick.
Over(i) ==
    /\ Resolved(i) /\ incidents[i].at + IncidentAge < MaxTime
    /\ \A e \in Rows(events) : events[e].incident = i =>
           /\ events[e].at + EventAge < MaxTime
           /\ e \in Rows(jobs) =>
                  jobs[e].status # "PENDING" /\ jobs[e].at + DeliveryAge < MaxTime
           /\ e \in Rows(deliveries) =>
                  /\ deliveries[e].status \in Terminal
                  /\ deliveries[e].at + DeliveryAge < MaxTime
HistoryGoes == \A i \in Incidents : Over(i) ~> ~Over(i)
==============================================================================
