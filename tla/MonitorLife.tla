----------------------------- MODULE MonitorLife -----------------------------
(***************************************************************************)
(* What the scheduler promises, without workers, leases, clocks, revisions *)
(* or configurations: a monitor has at most one check whose outcome will   *)
(* count, its checker, and at most one incident that is not over.  A check *)
(* ends once; an incident is opened and resolved by checks that count, and *)
(* is announced once when it begins and once when it is over.              *)
(* SchedulerLife shows that Scheduler implements this.                     *)
(***************************************************************************)
CONSTANTS Monitors, Checks, None

VARIABLES
    checks,     \* what became of each check, and the monitor it is of
    checker,    \* the check of each monitor whose outcome counts, or None
    incidents,  \* what became of the incident that each check opened
    incident,   \* the incident of each monitor that is not over, or None
    announced   \* what was told: what of which incident, after which check

inspection == <<checks, checker>>
alarm == <<incidents, incident, announced>>
vars == <<inspection, alarm>>

Unissued == [status |-> "UNISSUED", monitor |-> None]

Init ==
    /\ checks = [t \in Checks |-> Unissued]
    /\ checker = [m \in Monitors |-> None]
    /\ incidents = [t \in Checks |-> "NONE"]
    /\ incident = [m \in Monitors |-> None]
    /\ announced = {}

(******************************* checks ************************************)

\* The checks of these monitors, ended.
Ended(S, status) ==
    [t \in Checks |-> IF \E m \in S : checker[m] = t
                      THEN [checks[t] EXCEPT !.status = status] ELSE checks[t]]

\* New checks; a check that never came back is given up for the new one.
Start(S, token) ==
    /\ \A m \in S : checks[token[m]] = Unissued
    /\ \A m, n \in S : token[m] = token[n] => m = n
    /\ checks' = [t \in Checks |->
           IF \E m \in S : token[m] = t
           THEN [status |-> "RUNNING", monitor |-> CHOOSE m \in S : token[m] = t]
           ELSE Ended(S, "ABANDONED")[t]]
    /\ checker' = [m \in Monitors |-> IF m \in S THEN token[m] ELSE checker[m]]
    /\ UNCHANGED alarm

Stop(m, status) ==
    /\ checker[m] # None
    /\ checks' = Ended({m}, status)
    /\ checker' = [checker EXCEPT ![m] = None]

\* The check under way, if there is one, will not count.
Revoke(m) ==
    \/ Stop(m, "ABANDONED")
    \/ checker[m] = None /\ UNCHANGED inspection

(****************************** incidents **********************************)

Announce(what, i, t) ==
    announced' = announced \cup {[what |-> what, incident |-> i, check |-> t]}

Open(m) ==
    /\ incident[m] = None
    /\ incident' = [incident EXCEPT ![m] = checker[m]]
    /\ incidents' = [incidents EXCEPT ![checker[m]] = "OPEN"]
    /\ Announce("INCIDENT_OPENED", checker[m], checker[m])

\* It is over, and nobody ends it again.
End(m, status, what, t) ==
    /\ incident[m] # None
    /\ incident' = [incident EXCEPT ![m] = None]
    /\ incidents' = [incidents EXCEPT ![incident[m]] = status]
    /\ Announce(what, incident[m], t)

(******************************** next *************************************)

\* Only a check that counts opens or resolves an incident.
Complete(m) ==
    /\ Stop(m, "COMPLETED")
    /\ \/ UNCHANGED alarm
       \/ Open(m)
       \/ End(m, "RESOLVED", "INCIDENT_RESOLVED", checker[m])

Fail(m) == Stop(m, "ERROR") /\ UNCHANGED alarm

\* A pause, a resume or an edit; one of what is asked closes the incident.
Edit(m) ==
    /\ Revoke(m)
    /\ \/ UNCHANGED alarm
       \/ End(m, "CLOSED", "CONFIGURATION_CHANGED", None)

Acknowledge(t) ==
    /\ incidents[t] = "OPEN"
    /\ \E m \in Monitors : incident[m] = t
    /\ incidents' = [incidents EXCEPT ![t] = "ACKNOWLEDGED"]
    /\ UNCHANGED <<inspection, incident, announced>>

\* A monitor goes, with all it had.
Remove(m) ==
    LET mine == {t \in Checks : checks[t].monitor = m}
    IN
    /\ checks' = [t \in Checks |->
           IF t \in mine THEN [checks[t] EXCEPT !.status = "DELETED"] ELSE checks[t]]
    /\ checker' = [checker EXCEPT ![m] = None]
    /\ incidents' = [t \in Checks |-> IF t \in mine THEN "NONE" ELSE incidents[t]]
    /\ incident' = [incident EXCEPT ![m] = None]
    /\ announced' = {a \in announced : a.incident \notin mine}

Next ==
    \/ \E S \in SUBSET Monitors : \E token \in [S -> Checks] : Start(S, token)
    \/ \E m \in Monitors : Complete(m) \/ Fail(m) \/ Edit(m) \/ Remove(m)
    \/ \E t \in Checks : Acknowledge(t)

Spec == Init /\ [][Next]_vars
==============================================================================
