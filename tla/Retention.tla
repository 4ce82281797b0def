------------------------------ MODULE Retention ------------------------------
(***************************************************************************)
(* A pass of packages/database/src/retention.ts has two halves: Archive is *)
(* lines 38-87, on the checks and their summaries, Cleanup lines 88-94, on *)
(* events, incidents and notifications.  No statement of one reads or      *)
(* writes a table of the other, and a pass that fails undoes both, so that *)
(* a behaviour of the whole is one of each: a behaviour here is a          *)
(* behaviour of one half, and every behaviour of either is one here.       *)
(***************************************************************************)
EXTENDS Naturals

CONSTANTS
    None, Monitors, BatchSize, MaxFailures,
    \* Archive
    Runs, Healths, HourLength, CheckAge, SummaryAge, Interval, MaxCheckTime, MaxRevision,
    \* Cleanup
    Incidents, Events, EventAge, IncidentAge, DeliveryAge, MaxEventTime

ASSUME IdsAssumption == None \notin Runs \cup Incidents
\* retentionConfig: everything is positive, and summaries outlive checks.
ASSUME PolicyAssumption ==
    /\ {HourLength, BatchSize, CheckAge, SummaryAge, Interval} \subseteq Nat \ {0}
    /\ SummaryAge > CheckAge
    /\ {EventAge, IncidentAge, DeliveryAge} \subseteq Nat \ {0}
ASSUME BoundsAssumption ==
    {MaxCheckTime, MaxEventTime, MaxRevision, MaxFailures} \subseteq Nat

VARIABLES
    half,       \* the half this is a behaviour of
    now, failures,
    revisions, runs, hourly, rolling, nextRun, removed,
    active, incidents, events, jobs, deliveries, pruning

A == INSTANCE Archive WITH sweep <- rolling, MaxTime <- MaxCheckTime
C == INSTANCE Cleanup WITH sweep <- pruning, MaxTime <- MaxEventTime

\* A row that is not there is no row.
ASSUME RowsAssumption ==
    None \notin C!IncidentRow \cup C!EventRow \cup C!JobRow \cup C!DeliveryRow

archive == <<revisions, runs, hourly, rolling, nextRun, removed>>
cleanup == <<active, incidents, events, jobs, deliveries, pruning>>
vars == <<half, now, failures, archive, cleanup>>

Init ==
    /\ half \in {"ARCHIVE", "CLEANUP"}
    /\ A!Init /\ C!Init

Archiving(step) == half = "ARCHIVE" /\ step /\ UNCHANGED <<half, cleanup>>
CleaningUp(step) == half = "CLEANUP" /\ step /\ UNCHANGED <<half, archive>>

Next == Archiving(A!Next) \/ CleaningUp(C!Next)

Spec == Init /\ [][Next]_vars

\* Retention.run tries for ever.
FairSpec ==
    /\ Spec
    /\ WF_vars(Archiving(A!Sweeping)) /\ WF_vars(Archiving(A!Tick))
    /\ WF_vars(CleaningUp(C!Sweeping)) /\ WF_vars(CleaningUp(C!Tick))

-----------------------------------------------------------------------------
(******************************* properties ********************************)

\* The archive is exact: an hour's summary counts every check of the hour that a pass
\* removed, once, under its outcome and its revision (retention.ts:37, 47-81).
ArchiveIsExact == A!ArchiveIsExact

\* Whatever else is committed between its statements, a pass deletes no row that another
\* row still refers to (retention.ts:88-94).
ReferencesHold == C!ReferencesHold

\* What is still in progress is not history and stays, also when it became so after the
\* pass began (retention.ts:88-94; RETENTION.md:32).
LiveRowsStay == C!LiveRowsStay

\* Whatever fails on the way, both halves catch up: no check and no summary stays past
\* its window, and rows that are over do not keep each other for ever
\* (retention.ts:47-49, 81, 87-94, 104-111).
HistoryGoes == A!HistoryGoes /\ C!HistoryGoes
==============================================================================
