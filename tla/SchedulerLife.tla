---------------------------- MODULE SchedulerLife ----------------------------
(***************************************************************************)
(* Scheduler implements MonitorLife.  The checker of a monitor is the      *)
(* token of its lease; what workers hold, lose and try to commit does not  *)
(* exist in MonitorLife, nor does time: a worker that comes too late must  *)
(* be a worker that does nothing.                                          *)
(***************************************************************************)
EXTENDS Scheduler

\* The announcements of incidents among the events.
Announced ==
    {[what |-> e.type, incident |-> e.incident, check |-> e.run]
        : e \in {x \in events :
                    /\ x.incident # None
                    /\ x.type \in {"INCIDENT_OPENED", "INCIDENT_RESOLVED",
                                   "CONFIGURATION_CHANGED"}}}

Life == INSTANCE MonitorLife WITH
    Checks    <- Tokens,
    checks    <- [t \in Tokens |-> [status |-> runs[t].status, monitor |-> runs[t].monitor]],
    checker   <- [m \in Monitors |-> monitors[m].token],
    incident  <- [m \in Monitors |-> states[m].active],
    announced <- Announced

\* Whatever crashes, expires, is lost or is edited under a worker, only the check that holds
\* the lease counts, a check ends once, and an incident is opened and ended once and told
\* once each time, by the check that counts or by an edit, and never reopened
\* (repository.ts:62-133, 179-246; server.ts:178).
ImplementsLife == Life!Spec
==============================================================================
