------------------------------- MODULE Archive -------------------------------
(***************************************************************************)
(* Old checks and their hourly summaries: packages/database/src/           *)
(* retention.ts, lines 38-87, among the transactions that start and end    *)
(* checks.  Cleanup models the rest of the same pass, on tables that these *)
(* lines do not touch.                                                     *)
(*                                                                         *)
(* A pass is one transaction.  Between its statements the others commit;   *)
(* the checks it has selected stay locked until it commits or fails, and   *)
(* so does the row of the table maintenance: there is one pass at a time.  *)
(***************************************************************************)
EXTENDS Naturals, FiniteSets

CONSTANTS
    Monitors, Runs, None,
    Healths,       \* statuses of an observation that are told apart
    HourLength,    \* ticks in the hour of a summary
    BatchSize,     \* config.batchSize: rows of one table that a pass takes
    CheckAge, SummaryAge,
                   \* config.checkHours and config.summaryDays, in ticks
    Interval,      \* config.intervalSeconds, in ticks
    MaxTime, MaxRevision, MaxFailures
                   \* bounds: clock, edits of a monitor, passes that fail

\* Retention states what is assumed of them.

VARIABLES
    now,        \* CURRENT_TIMESTAMP(3)
    revisions,  \* table monitors: config_revision of each, or None
    runs,       \* table check_runs: [Runs -> row or None]
    hourly,     \* table monitor_hourly: a function on the keys it has
    sweep,      \* the pass under way and the rows it has locked, or None
    nextRun,    \* maintenance.next_run_at
    failures,   \* passes that failed so far
    removed     \* history: the checks that passes removed, with their keys

passes == <<hourly, sweep, nextRun, failures, removed>>
vars == <<now, revisions, runs, passes>>

Outcomes == Healths \cup {"ERROR", "ABANDONED"}

Hour(time) == time - (time % HourLength)

Key(x) == [monitor |-> runs[x].monitor, hour |-> Hour(runs[x].started),
           revision |-> runs[x].revision]

Exists(x) == runs[x] # None
Running(x) == Exists(x) /\ runs[x].outcome = "RUNNING"

Init ==
    /\ now = 0
    /\ revisions = [m \in Monitors |-> 1]
    /\ runs = [x \in Runs |-> None]
    /\ hourly = [k \in {} |-> 0]
    /\ sweep = None
    /\ nextRun = 0
    /\ failures = 0
    /\ removed = {}

(************************ the rest of the program **************************)

Ended(x, outcome) == [runs[x] EXCEPT !.outcome = outcome, !.finished = now]

Abandoned(m) ==
    [x \in Runs |-> IF Running(x) /\ runs[x].monitor = m THEN Ended(x, "ABANDONED")
                    ELSE runs[x]]

\* claimDue, which ends the run of an expired lease.
StartCheck(m, x) ==
    /\ revisions[m] # None
    /\ ~Exists(x) /\ \A r \in removed : r.run # x
    /\ runs' = [Abandoned(m) EXCEPT
           ![x] = [monitor |-> m, revision |-> revisions[m], started |-> now,
                   finished |-> None, outcome |-> "RUNNING"]]
    /\ UNCHANGED <<now, revisions, passes>>

\* complete or fail.
EndCheck(x, outcome) ==
    /\ Running(x)
    /\ runs' = [runs EXCEPT ![x] = Ended(x, outcome)]
    /\ UNCHANGED <<now, revisions, passes>>

\* setEnabled or updateMonitor: a new revision, and the check under way is abandoned.
Edit(m) ==
    /\ revisions[m] # None /\ revisions[m] < MaxRevision
    /\ runs' = Abandoned(m)
    /\ revisions' = [revisions EXCEPT ![m] = @ + 1]
    /\ UNCHANGED <<now, passes>>

Without(gone) == [x \in Runs |-> IF x \in gone THEN None ELSE runs[x]]

\* It waits for a pass that has locked checks of the monitor.
DeleteMonitor(m) ==
    /\ revisions[m] # None
    /\ sweep # None => \A x \in sweep.runs : runs[x].monitor # m
    /\ revisions' = [revisions EXCEPT ![m] = None]
    /\ runs' = Without({x \in Runs : Exists(x) /\ runs[x].monitor = m})
    /\ hourly' = [k \in {key \in DOMAIN hourly : key.monitor # m} |-> hourly[k]]
    /\ removed' = {r \in removed : r.key.monitor # m}
    /\ UNCHANGED <<now, sweep, nextRun, failures>>

(******************************** a pass ***********************************)

\* before(then, age): what is older is out of the window.
Older(time, age, then) == time + age < then

\* SELECT or DELETE ... LIMIT: all the rows there are, or as many as the limit allows.
Batches(rows) ==
    LET size == Cardinality(rows)
    IN {b \in SUBSET rows : Cardinality(b) = IF size < BatchSize THEN size ELSE BatchSize}

\* Mutant of OldRuns: a check that was abandoned is not looked for.
OldRunsButAbandoned(then) ==
    {x \in Runs : /\ Exists(x) /\ runs[x].outcome \in Healths \cup {"ERROR"}
                  /\ Older(runs[x].finished, CheckAge, then)}

\* Finished checks that are old enough; a running one has no time of its end.
OldRuns(then) ==
    {x \in Runs : Exists(x) /\ ~Running(x) /\ Older(runs[x].finished, CheckAge, then)}

\* The lease row and the oldest finished checks are locked.
StartSweep ==
    /\ sweep = None /\ nextRun <= now
    /\ \E b \in Batches(OldRuns(now)) :
           /\ \A x \in b, y \in OldRuns(now) \ b : runs[x].finished <= runs[y].finished
           /\ sweep' = [now |-> now, runs |-> b]
    /\ UNCHANGED <<now, revisions, runs, hourly, nextRun, failures, removed>>

\* Checks of hours that are too old for a summary are not counted.
Counted == {x \in sweep.runs : ~Older(Hour(runs[x].started), SummaryAge, sweep.now)}

Tally(k) ==
    [o \in Outcomes |-> Cardinality({x \in Counted : Key(x) = k /\ runs[x].outcome = o})]

\* INSERT ... ON DUPLICATE KEY UPDATE
RolledUp ==
    [k \in DOMAIN hourly \cup {Key(x) : x \in Counted} |->
        IF k \in DOMAIN hourly THEN [o \in Outcomes |-> hourly[k][o] + Tally(k)[o]]
        ELSE Tally(k)]

\* Summaries that are out of their window.
OldSummaries == {k \in DOMAIN RolledUp : Older(k.hour, SummaryAge, sweep.now)}

\* The next time a pass is due; the last tick stands for all the time after it.
Later == IF now + Interval < MaxTime THEN now + Interval ELSE MaxTime

\* The roll-up, the removal of the checks and the end of the pass.
CommitSweep ==
    /\ sweep # None
    /\ \E b \in Batches(OldSummaries) :
           hourly' = [k \in DOMAIN RolledUp \ b |-> RolledUp[k]]
    /\ runs' = Without(sweep.runs)
    /\ removed' = removed \cup
           {[run |-> x, key |-> Key(x), outcome |-> runs[x].outcome] : x \in sweep.runs}
    /\ nextRun' = Later
    /\ sweep' = None
    /\ UNCHANGED <<now, revisions, failures>>

\* Mutant of Undone: the roll-up was a transaction of its own.
Kept == RolledUp

\* The summaries after a pass that fails: its changes are rolled back.
Undone == hourly

\* An error of a statement, or the death of the worker.
AbortSweep ==
    /\ sweep # None /\ failures < MaxFailures
    /\ hourly' = Undone
    /\ sweep' = None
    /\ failures' = failures + 1
    /\ UNCHANGED <<now, revisions, runs, nextRun, removed>>

Tick ==
    /\ now < MaxTime
    /\ now' = now + 1
    /\ UNCHANGED <<revisions, runs, passes>>

Sweeping == StartSweep \/ CommitSweep

Next ==
    \/ Sweeping \/ AbortSweep \/ Tick
    \/ \E m \in Monitors : Edit(m) \/ DeleteMonitor(m) \/ \E x \in Runs : StartCheck(m, x)
    \/ \E x \in Runs, outcome \in Healths \cup {"ERROR"} : EndCheck(x, outcome)

Spec == Init /\ [][Next]_vars

\* Retention.run tries for ever.
FairSpec == Spec /\ WF_vars(Sweeping) /\ WF_vars(Tick)

-----------------------------------------------------------------------------
(******************************* properties ********************************)

\* The archive is exact: as long as an hour is inside the window of summaries, its
\* summary counts every check of the hour that a pass removed, once, under its outcome
\* and its revision; passes that fail and hours that fill over several passes included
\* (retention.ts:37, 47-81).
ArchiveIsExact ==
    \A k \in [monitor : Monitors, hour : 0..MaxTime, revision : 1..MaxRevision] :
        k.hour + SummaryAge >= now =>
            \A o \in Outcomes :
                Cardinality({r \in removed : r.key = k /\ r.outcome = o}) =
                    IF k \in DOMAIN hourly THEN hourly[k][o] ELSE 0

\* Whatever fails on the way, in the end there is no check any more that ended before
\* the window of checks, and no summary from before theirs (retention.ts:47-49, 81, 87,
\* 104-111).
HistoryGoes ==
    <>[](/\ \A x \in Runs :
                Exists(x) /\ ~Running(x) => ~Older(runs[x].finished, CheckAge, MaxTime)
         /\ \A k \in DOMAIN hourly : ~Older(k.hour, SummaryAge, MaxTime))
=============================================================================
