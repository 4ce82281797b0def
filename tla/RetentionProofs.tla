---------------------------- MODULE RetentionProofs ----------------------------
(***************************************************************************)
(* Safety of Retention: the summaries are exact, references hold and what  *)
(* is in progress stays, for every number of monitors, checks, incidents,  *)
(* events and clock ticks, every policy and size of a batch.               *)
(***************************************************************************)
EXTENDS Retention, FiniteSetTheorems, TLAPS

(*************************** the archive ***********************************)

\* The checks a pass has locked are there, and have ended.
Selected ==
    rolling # None =>
        /\ rolling.now \in Nat /\ rolling.now <= now
        /\ \A x \in rolling.runs : x \in Runs /\ A!Exists(x) /\ ~A!Running(x)

\* What was removed is gone for good.
Gone == \A r \in removed : r.run \in Runs /\ ~A!Exists(r.run)

\* The checks that are there and those that were removed can be counted.
Finite ==
    /\ IsFiniteSet({x \in Runs : A!Exists(x)})
    /\ IsFiniteSet(removed)

ArchiveInv ==
    /\ now \in Nat
    /\ runs = [x \in Runs |-> runs[x]]
    /\ Selected
    /\ Gone
    /\ Finite
    /\ ArchiveIsExact

\* Archive counts as FiniteSets does.
LEMMA SameCardinality == \A S : A!Cardinality(S) = Cardinality(S)
  BY DEF A!Cardinality, Cardinality

Hours == [monitor : Monitors, hour : 0..MaxCheckTime, revision : 1..MaxRevision]

\* The checks of a key that were removed, and those a summary counts.
Removals(k, o) == {r \in removed : r.key = k /\ r.outcome = o}
Summed(k, o) == IF k \in DOMAIN hourly THEN hourly[k][o] ELSE 0

Exact ==
    \A k \in Hours : k.hour + SummaryAge >= now =>
        \A o \in A!Outcomes : Cardinality(Removals(k, o)) = Summed(k, o)

\* The property in these words.
LEMMA ExactIs == (ArchiveIsExact <=> Exact) /\ (ArchiveIsExact' <=> Exact')
  BY SameCardinality DEF ArchiveIsExact, A!ArchiveIsExact, Exact, Hours, Removals, Summed

\* Time may pass, and the other half may work.
LEMMA ArchiveWaits ==
  ASSUME ArchiveInv, UNCHANGED archive, now' \in Nat, now' >= now
  PROVE  ArchiveInv'
<1>1. SummaryAge \in Nat
  BY PolicyAssumption
<1>2. Selected' /\ Gone' /\ Finite'
  BY DEF ArchiveInv, archive, Selected, Gone, Finite, A!Exists, A!Running
<1>3. Exact'
  BY <1>1, ExactIs DEF ArchiveInv, Exact, Removals, Summed, archive, Hours
<1> QED
  BY <1>2, <1>3, ExactIs DEF ArchiveInv, archive

\* Checks start, end and are abandoned: what a pass has removed or locked is not touched.
LEMMA ChecksMove ==
  ASSUME ArchiveInv, UNCHANGED <<now, hourly, rolling, removed>>,
         runs' = [x \in Runs |-> runs'[x]],
         NEW y,
         \A x \in Runs \ {y} : runs'[x] = runs[x] \/ A!Running(x),
         y \in Runs => ~A!Exists(y) /\ \A r \in removed : r.run # y
  PROVE  ArchiveInv'
<1>1. Selected'
  BY DEF ArchiveInv, Selected, A!Exists, A!Running
<1>2. Gone'
  BY DEF ArchiveInv, Gone, A!Exists, A!Running
<1>3. Finite'
  <2> DEFINE before == {x \in Runs : A!Exists(x)}
             after == {x \in Runs : runs'[x] # None}
  <2>1. IsFiniteSet(before)
    BY DEF ArchiveInv, Finite
  <2>2. IsFiniteSet(before \cup {y})
    BY <2>1, FS_AddElement
  <2>3. after \subseteq before \cup {y}
    BY DEF A!Exists, A!Running
  <2>4. IsFiniteSet(after)
    BY <2>2, <2>3, FS_Subset
  <2> QED
    BY <2>4 DEF ArchiveInv, Finite, A!Exists
<1>4. Exact'
  BY ExactIs DEF ArchiveInv, Exact, Removals, Summed
<1> QED
  BY <1>1, <1>2, <1>3, <1>4, ExactIs DEF ArchiveInv

\* What is done to checks outside of the passes.
LEMMA MonitoringKeepsArchive ==
  ASSUME ArchiveInv,
         \/ \E m \in Monitors : A!Edit(m) \/ \E x \in Runs : A!StartCheck(m, x)
         \/ \E x \in Runs, outcome \in Healths \cup {"ERROR"} : A!EndCheck(x, outcome)
  PROVE  ArchiveInv'
<1>1. ASSUME NEW m \in Monitors, A!Edit(m)
      PROVE  ArchiveInv'
  <2>1. /\ UNCHANGED <<now, hourly, rolling, removed>>
        /\ runs' = [x \in Runs |-> runs'[x]]
        /\ \A x \in Runs : runs'[x] = runs[x] \/ A!Running(x)
        /\ None \notin Runs
    BY <1>1, IdsAssumption DEF A!Edit, A!Abandoned, A!passes
  <2> QED
    BY <2>1, ChecksMove
<1>2. ASSUME NEW m \in Monitors, NEW y \in Runs, A!StartCheck(m, y)
      PROVE  ArchiveInv'
  <2>1. /\ UNCHANGED <<now, hourly, rolling, removed>>
        /\ runs' = [x \in Runs |-> runs'[x]]
        /\ \A x \in Runs \ {y} : runs'[x] = runs[x] \/ A!Running(x)
        /\ ~A!Exists(y) /\ \A r \in removed : r.run # y
    BY <1>2 DEF A!StartCheck, A!Abandoned, A!passes
  <2> QED
    BY <2>1, ChecksMove
<1>3. ASSUME NEW y \in Runs, NEW outcome \in Healths \cup {"ERROR"}, A!EndCheck(y, outcome)
      PROVE  ArchiveInv'
  <2>1. /\ UNCHANGED <<now, hourly, rolling, removed>>
        /\ runs' = [x \in Runs |-> runs'[x]]
        /\ \A x \in Runs : runs'[x] = runs[x] \/ A!Running(x)
        /\ None \notin Runs
    BY <1>3, IdsAssumption DEF A!EndCheck, A!passes, ArchiveInv
  <2> QED
    BY <2>1, ChecksMove
<1> QED
  BY <1>1, <1>2, <1>3

\* A deleted monitor takes its checks and their summaries along.
LEMMA DeletionKeepsArchive ==
  ASSUME ArchiveInv, NEW m \in Monitors, A!DeleteMonitor(m)
  PROVE  ArchiveInv'
<1> DEFINE gone == {x \in Runs : A!Exists(x) /\ runs[x].monitor = m}
<1>1. /\ UNCHANGED <<now, rolling>>
      /\ rolling # None => \A x \in rolling.runs : runs[x].monitor # m
      /\ runs' = [x \in Runs |-> IF x \in gone THEN None ELSE runs[x]]
      /\ hourly' = [k \in {key \in DOMAIN hourly : key.monitor # m} |-> hourly[k]]
      /\ removed' = {r \in removed : r.key.monitor # m}
  BY DEF A!DeleteMonitor, A!Without
<1>2. Selected'
  BY <1>1 DEF ArchiveInv, Selected, A!Exists, A!Running
<1>3. Gone'
  BY <1>1 DEF ArchiveInv, Gone, A!Exists
<1>4. Finite'
  <2>1. {x \in Runs : A!Exists(x)}' \subseteq {x \in Runs : A!Exists(x)}
    BY <1>1 DEF A!Exists
  <2>2. removed' \subseteq removed
    BY <1>1
  <2> QED
    BY <2>1, <2>2, FS_Subset DEF ArchiveInv, Finite
<1>5. Exact'
  <2> SUFFICES ASSUME NEW k \in Hours, k.hour + SummaryAge >= now, NEW o \in A!Outcomes
               PROVE  Cardinality(Removals(k, o)') = Summed(k, o)'
    BY <1>1 DEF Exact
  <2>1. Cardinality(Removals(k, o)) = Summed(k, o)
    BY ExactIs DEF ArchiveInv, Exact
  <2>2. CASE k.monitor = m
    <3>1. Removals(k, o)' = {} /\ Summed(k, o)' = 0
      BY <1>1, <2>2 DEF Removals, Summed
    <3> QED
      BY <3>1, FS_EmptySet
  <2>3. CASE k.monitor # m
    <3>1. Removals(k, o)' = Removals(k, o)
      BY <1>1, <2>3 DEF Removals
    <3>2. Summed(k, o)' = Summed(k, o)
      BY <1>1, <2>3 DEF Summed
    <3> QED
      BY <2>1, <3>1, <3>2
  <2> QED
    BY <2>2, <2>3
<1> QED
  BY <1>1, <1>2, <1>3, <1>4, <1>5, ExactIs DEF ArchiveInv

\* A pass takes a subset of what it looks for.
LEMMA ArchiveBatch == \A rows : \A b \in A!Batches(rows) : b \subseteq rows
  BY DEF A!Batches

\* What a pass remembers of a check.
Removal(x) == [run |-> x, key |-> A!Key(x), outcome |-> runs[x].outcome]

\* Every check is remembered once.
LEMMA RemovalsOf ==
  ASSUME NEW F, IsFiniteSet(F)
  PROVE  /\ IsFiniteSet({Removal(x) : x \in F})
         /\ Cardinality({Removal(x) : x \in F}) = Cardinality(F)
<1> DEFINE T == {Removal(x) : x \in F}
           f == [x \in F |-> Removal(x)]
<1>1. \A x \in F : Removal(x).run = x
  BY DEF Removal
<1>2. \A x, y \in F : Removal(x) = Removal(y) => x = y
  BY <1>1
<1>3. f \in Bijection(F, T)
  BY <1>2, Zenon DEF Bijection, Injection, Surjection, IsInjective
<1>4. ExistsBijection(F, T)
  BY <1>3 DEF ExistsBijection
<1> QED
  BY <1>4, FS_Bijection

\* The checks of a pass that a key and an outcome have.
Taken(k, o) == {x \in rolling.runs : A!Key(x) = k /\ runs[x].outcome = o}

\* A pass adds to what was removed the checks it takes, none of which was.
LEMMA RemovalsGrow ==
  ASSUME ArchiveInv, rolling # None, NEW k, NEW o,
         removed' = removed \cup {Removal(x) : x \in rolling.runs}
  PROVE  /\ IsFiniteSet(Taken(k, o)) /\ IsFiniteSet(Removals(k, o))
         /\ Cardinality(Removals(k, o)') = Cardinality(Removals(k, o)) + Cardinality(Taken(k, o))
         /\ IsFiniteSet(removed')
<1> DEFINE new == {Removal(x) : x \in Taken(k, o)}
<1>1. IsFiniteSet(rolling.runs)
  <2>1. rolling.runs \subseteq {x \in Runs : A!Exists(x)}
    BY DEF ArchiveInv, Selected
  <2> QED
    BY <2>1, FS_Subset DEF ArchiveInv, Finite
<1>2. IsFiniteSet(Taken(k, o)) /\ IsFiniteSet(Removals(k, o))
  <2>1. Taken(k, o) \subseteq rolling.runs /\ Removals(k, o) \subseteq removed
    BY DEF Taken, Removals
  <2> QED
    BY <1>1, <2>1, FS_Subset DEF ArchiveInv, Finite
<1>3. IsFiniteSet(new) /\ Cardinality(new) = Cardinality(Taken(k, o))
  BY <1>2, RemovalsOf
<1>4. Removals(k, o)' = Removals(k, o) \cup new
  <2>1. \A x : Removal(x).run = x /\ Removal(x).key = A!Key(x)
               /\ Removal(x).outcome = runs[x].outcome
    BY DEF Removal
  <2> QED
    BY <2>1 DEF Removals, Taken
<1>5. Removals(k, o) \cap new = {}
  <2>1. \A r \in new : r.run \in rolling.runs
    BY DEF Removal, Taken
  <2>2. \A r \in Removals(k, o) : ~A!Exists(r.run)
    BY DEF Removals, ArchiveInv, Gone
  <2> QED
    BY <2>1, <2>2 DEF ArchiveInv, Selected
<1> HIDE DEF new
<1>6. Cardinality(Removals(k, o)') = Cardinality(Removals(k, o)) + Cardinality(new)
  <2>1. Cardinality(Removals(k, o)') =
            Cardinality(Removals(k, o)) + Cardinality(new) - Cardinality({})
    BY <1>2, <1>3, <1>4, <1>5, FS_Union
  <2>2. /\ Cardinality({}) = 0 /\ Cardinality(Removals(k, o)) \in Nat
        /\ Cardinality(new) \in Nat
    BY <1>2, <1>3, FS_EmptySet, FS_CardinalityType
  <2> QED
    BY <2>1, <2>2
<1>7. IsFiniteSet(removed')
  BY <1>1, RemovalsOf, FS_Union DEF ArchiveInv, Finite
<1> QED
  BY <1>2, <1>3, <1>6, <1>7

\* A summary gains what the pass takes of its key, if its hour is in the window.
LEMMA SummaryGrows ==
  ASSUME ArchiveInv, rolling # None, NEW k \in Hours, k.hour + SummaryAge >= now,
         NEW o \in A!Outcomes, NEW b \in A!Batches(A!OldSummaries),
         hourly' = [l \in DOMAIN A!RolledUp \ b |-> A!RolledUp[l]]
  PROVE  Summed(k, o)' = Summed(k, o) + Cardinality(Taken(k, o))
<1>1. /\ SummaryAge \in Nat /\ k.hour \in Nat /\ now \in Nat
      /\ rolling.now \in Nat /\ rolling.now <= now
  BY PolicyAssumption DEF Hours, ArchiveInv, Selected
<1>2. ~A!Older(k.hour, SummaryAge, rolling.now)
  BY <1>1 DEF A!Older
<1>3. k \notin b
  BY <1>2, ArchiveBatch DEF A!OldSummaries
<1>4. \A x : A!Key(x) = k => A!Hour(runs[x].started) = k.hour
  BY DEF A!Key
<1>5. Taken(k, o) = {x \in A!Counted : A!Key(x) = k /\ runs[x].outcome = o}
  BY <1>2, <1>4 DEF Taken, A!Counted
<1>6. A!Tally(k)[o] = Cardinality(Taken(k, o))
  BY <1>5, SameCardinality DEF A!Tally
<1>7. Summed(k, o) \in Nat
  <2>1. IsFiniteSet(Removals(k, o))
    BY FS_Subset DEF ArchiveInv, Finite, Removals
  <2>2. Cardinality(Removals(k, o)) = Summed(k, o)
    BY ExactIs DEF ArchiveInv, Exact
  <2> QED
    BY <2>1, <2>2, FS_CardinalityType
<1>8. CASE k \in DOMAIN hourly
  <2>1. k \in DOMAIN A!RolledUp /\ A!RolledUp[k][o] = hourly[k][o] + A!Tally(k)[o]
    BY <1>8 DEF A!RolledUp
  <2>2. Summed(k, o)' = A!RolledUp[k][o]
    BY <1>3, <2>1 DEF Summed
  <2> QED
    BY <1>6, <1>8, <2>1, <2>2 DEF Summed
<1>9. CASE k \notin DOMAIN hourly /\ k \in {A!Key(x) : x \in A!Counted}
  <2>1. k \in DOMAIN A!RolledUp /\ A!RolledUp[k] = A!Tally(k)
    BY <1>9 DEF A!RolledUp
  <2>2. Summed(k, o)' = A!RolledUp[k][o]
    BY <1>3, <2>1 DEF Summed
  <2>3. Summed(k, o) = 0
    BY <1>9 DEF Summed
  <2>4. Cardinality(Taken(k, o)) \in Nat
    BY <1>5, FS_CardinalityType, FS_Subset DEF Taken, ArchiveInv, Selected, Finite
  <2> QED
    BY <1>6, <2>1, <2>2, <2>3, <2>4
<1>10. CASE k \notin DOMAIN hourly /\ k \notin {A!Key(x) : x \in A!Counted}
  <2>1. k \notin DOMAIN A!RolledUp
    BY <1>10 DEF A!RolledUp
  <2>2. Taken(k, o) = {}
    BY <1>5, <1>10
  <2> QED
    BY <1>10, <2>1, <2>2, FS_EmptySet DEF Summed
<1> QED
  BY <1>8, <1>9, <1>10

\* A pass that commits has counted what it removed.
LEMMA CommitKeepsArchive ==
  ASSUME ArchiveInv, A!CommitSweep
  PROVE  ArchiveInv'
<1>1. PICK b \in A!Batches(A!OldSummaries) :
          hourly' = [l \in DOMAIN A!RolledUp \ b |-> A!RolledUp[l]]
  BY DEF A!CommitSweep
<1>2. /\ rolling # None /\ rolling' = None /\ now' = now
      /\ runs' = [x \in Runs |-> IF x \in rolling.runs THEN None ELSE runs[x]]
      /\ removed' = removed \cup {Removal(x) : x \in rolling.runs}
  BY DEF A!CommitSweep, A!Without, Removal
<1>3. Selected'
  BY <1>2 DEF Selected
<1>4. Gone'
  <2>1. \A x \in rolling.runs : Removal(x).run = x /\ x \in Runs
    BY <1>2 DEF Removal, ArchiveInv, Selected
  <2> QED
    BY <1>2, <2>1 DEF ArchiveInv, Gone, A!Exists
<1>5. Finite'
  <2>1. {x \in Runs : A!Exists(x)}' \subseteq {x \in Runs : A!Exists(x)}
    BY <1>2 DEF A!Exists
  <2>2. IsFiniteSet(removed')
    BY <1>2, RemovalsGrow
  <2> QED
    BY <2>1, <2>2, FS_Subset DEF ArchiveInv, Finite
<1>6. Exact'
  <2> SUFFICES ASSUME NEW k \in Hours, k.hour + SummaryAge >= now, NEW o \in A!Outcomes
               PROVE  Cardinality(Removals(k, o)') = Summed(k, o)'
    BY <1>2 DEF Exact
  <2>1. Cardinality(Removals(k, o)) = Summed(k, o)
    BY ExactIs DEF ArchiveInv, Exact
  <2>2. Cardinality(Removals(k, o)') = Cardinality(Removals(k, o)) + Cardinality(Taken(k, o))
    BY <1>2, RemovalsGrow
  <2>3. Summed(k, o)' = Summed(k, o) + Cardinality(Taken(k, o))
    BY <1>1, <1>2, SummaryGrows
  <2> QED
    BY <2>1, <2>2, <2>3
<1> QED
  BY <1>2, <1>3, <1>4, <1>5, <1>6, ExactIs DEF ArchiveInv

\* A pass that begins has taken nothing yet, and one that fails leaves no trace.
LEMMA SweepKeepsArchive ==
  ASSUME ArchiveInv, A!StartSweep \/ A!AbortSweep
  PROVE  ArchiveInv'
<1>1. UNCHANGED <<now, runs, hourly, removed>>
  BY DEF A!StartSweep, A!AbortSweep, A!Undone
<1>2. Selected'
  <2>1. CASE A!StartSweep
    <3>1. PICK b \in A!Batches(A!OldRuns(now)) : rolling' = [now |-> now, runs |-> b]
      BY <2>1 DEF A!StartSweep
    <3>2. \A x \in b : x \in Runs /\ A!Exists(x) /\ ~A!Running(x)
      BY ArchiveBatch DEF A!OldRuns
    <3> QED
      BY <1>1, <3>1, <3>2 DEF ArchiveInv, Selected, A!Exists, A!Running
  <2>2. CASE A!AbortSweep
    BY <2>2 DEF A!AbortSweep, Selected
  <2> QED
    BY <2>1, <2>2
<1>3. Gone' /\ Finite' /\ Exact'
  BY <1>1, ExactIs DEF ArchiveInv, Gone, Finite, Exact, Removals, Summed, A!Exists
<1> QED
  BY <1>1, <1>2, <1>3, ExactIs DEF ArchiveInv

\* Every step of either half.
LEMMA ArchiveStep == ArchiveInv /\ [Next]_vars => ArchiveInv'
<1> SUFFICES ASSUME ArchiveInv, [Next]_vars PROVE ArchiveInv'
  OBVIOUS
<1>1. now \in Nat
  BY DEF ArchiveInv
<1>2. CASE A!Next
  <2>1. CASE A!Tick
    BY <1>1, <2>1, ArchiveWaits DEF A!Tick, A!passes, archive
  <2> QED
    BY <1>2, <2>1, MonitoringKeepsArchive, DeletionKeepsArchive, CommitKeepsArchive,
       SweepKeepsArchive DEF A!Next, A!Sweeping
<1>3. CASE C!Next /\ UNCHANGED archive
  <2>1. now' = now \/ now' = now + 1
    BY <1>3 DEF C!Next, C!Sweeping, C!StartSweep, C!PruneDeliveries, C!PruneJobs,
                C!PruneEvents, C!PruneIncidents, C!Prune, C!CommitSweep, C!AbortSweep,
                C!Monitoring, C!Change, C!Resolve, C!Redefine, C!Open, C!DeleteMonitor,
                C!Acknowledge, C!Notifying, C!Route, C!Retry, C!Settle, C!Tick
  <2> QED
    BY <1>1, <1>3, <2>1, ArchiveWaits
<1>4. CASE UNCHANGED vars
  BY <1>1, <1>4, ArchiveWaits DEF vars
<1> QED
  BY <1>2, <1>3, <1>4 DEF Next, Archiving, CleaningUp

\* Nothing has been removed and nothing counted.
LEMMA ArchiveInit == Init => ArchiveInv
<1> SUFFICES ASSUME Init PROVE ArchiveInv
  OBVIOUS
<1>1. /\ now = 0 /\ runs = [x \in Runs |-> None] /\ rolling = None /\ removed = {}
      /\ hourly = [k \in {} |-> 0]
  BY DEF Init, A!Init
<1>2. Selected /\ Gone
  BY <1>1 DEF Selected, Gone
<1>3. Finite
  <2>1. {x \in Runs : A!Exists(x)} = {}
    BY <1>1 DEF A!Exists
  <2> QED
    BY <1>1, <2>1, FS_EmptySet DEF Finite
<1>4. Exact
  <2>1. \A k \in Hours, o \in A!Outcomes : Removals(k, o) = {} /\ Summed(k, o) = 0
    BY <1>1 DEF Removals, Summed
  <2> QED
    BY <2>1, FS_EmptySet DEF Exact
<1> QED
  BY <1>1, <1>2, <1>3, <1>4, ExactIs DEF ArchiveInv

\* The archive is exact: as long as an hour is in the window of summaries, its summary
\* counts every check of the hour that a pass removed, once, under its outcome and its
\* revision, whatever fails or is deleted on the way (retention.ts:37, 47-81).
THEOREM SummariesAreExact == Spec => []ArchiveIsExact
<1>1. Spec => []ArchiveInv
  BY ArchiveInit, ArchiveStep, PTL DEF Spec
<1>2. ArchiveInv => ArchiveIsExact
  BY DEF ArchiveInv
<1> QED
  BY <1>1, <1>2, PTL

(*************************** the clean-up **********************************)

Tables ==
    /\ now \in Nat
    /\ active \in [Monitors -> Incidents \cup {None}]
    /\ incidents \in [Incidents -> C!IncidentRow \cup {None}]
    /\ events \in [Events -> C!EventRow \cup {None}]
    /\ jobs \in [Events -> C!JobRow \cup {None}]
    /\ deliveries \in [Events -> C!DeliveryRow \cup {None}]
    /\ pruning \in [pc : {"NONE", "DELIVERIES", "JOBS", "EVENTS", "INCIDENTS", "COMMIT"},
                    now : Nat, deliveries : SUBSET Events, jobs : SUBSET Events,
                    events : SUBSET Events, incidents : SUBSET Incidents]

\* What is referred to is there, and belongs to the monitor that refers to it.
References ==
    /\ \A e \in Events : deliveries[e] # None => jobs[e] # None
    /\ \A e \in Events : jobs[e] # None => events[e] # None
    /\ \A e \in Events :
           events[e] # None /\ events[e].incident # None =>
               /\ incidents[events[e].incident] # None
               /\ incidents[events[e].incident].monitor = events[e].monitor
    /\ \A m \in Monitors :
           active[m] # None => incidents[active[m]] # None /\ incidents[active[m]].monitor = m

Resolved(i) == incidents[i] # None /\ incidents[i].status = "RESOLVED"

\* What a pass is about to delete is over and, in the order of its statements, referred
\* to by nothing but what it deletes too.
Doomed ==
    /\ \A d \in pruning.deliveries :
           deliveries[d] # None /\ deliveries[d].status \in C!Terminal
    /\ \A j \in pruning.jobs :
           /\ jobs[j] # None /\ jobs[j].status # "PENDING"
           /\ deliveries[j] # None => j \in pruning.deliveries
    /\ \A e \in pruning.events :
           /\ events[e] # None
           /\ events[e].incident = None \/ Resolved(events[e].incident)
           /\ jobs[e] # None => e \in pruning.jobs
    /\ \A i \in pruning.incidents :
           /\ Resolved(i)
           /\ \A e \in Events :
                  events[e] # None /\ events[e].incident = i => e \in pruning.events
           /\ \A m \in Monitors : active[m] # i

\* The statements run in the order of the references.
InOrder ==
    /\ pruning.pc \in {"NONE", "DELIVERIES"} => pruning.deliveries = {}
    /\ pruning.pc \in {"NONE", "DELIVERIES", "JOBS"} => pruning.jobs = {}
    /\ pruning.pc \in {"NONE", "DELIVERIES", "JOBS", "EVENTS"} => pruning.events = {}
    /\ pruning.pc # "COMMIT" => pruning.incidents = {}

CleanupInv == Tables /\ References /\ Doomed /\ InOrder

\* A row is not None.
LEMMA RowsAreRows ==
  \A row \in C!IncidentRow \cup C!EventRow \cup C!JobRow \cup C!DeliveryRow : row # None
  BY RowsAssumption

\* The property in these words.
LEMMA ReferencesAre == Tables /\ References => ReferencesHold
<1> SUFFICES ASSUME Tables, References PROVE ReferencesHold
  OBVIOUS
<1>1. /\ C!Rows(deliveries) = {e \in Events : deliveries[e] # None}
      /\ C!Rows(jobs) = {e \in Events : jobs[e] # None}
      /\ C!Rows(events) = {e \in Events : events[e] # None}
      /\ C!Rows(incidents) = {i \in Incidents : incidents[i] # None}
  BY DEF Tables, C!Rows
<1>2. \A e \in Events : events[e] # None => events[e].incident \in Incidents \cup {None}
  BY DEF Tables, C!EventRow
<1>3. \A m \in Monitors : active[m] \in Incidents \cup {None}
  BY DEF Tables
<1> QED
  BY <1>1, <1>2, <1>3 DEF References, ReferencesHold, C!ReferencesHold

\* Time may pass, and the other half may work.
LEMMA CleanupWaits ==
  ASSUME CleanupInv, UNCHANGED cleanup, now' \in Nat
  PROVE  CleanupInv'
  BY DEF CleanupInv, Tables, References, Doomed, InOrder, Resolved, cleanup

\* Incidents stay, with their monitor, and one that is over stays over.
IncidentsGrow ==
    /\ incidents' \in [Incidents -> C!IncidentRow \cup {None}]
    /\ \A n \in Incidents :
           incidents[n] # None => incidents'[n] # None /\ incidents'[n].monitor = incidents[n].monitor
    /\ \A n \in Incidents : Resolved(n) => Resolved(n)'

\* An event that is recorded belongs to an incident of its monitor, which no pass deletes.
LEMMA RecordKeeps ==
  ASSUME CleanupInv, NEW m \in Monitors, NEW i \in Incidents \cup {None}, NEW e \in Events,
         C!Record(m, i, e),
         UNCHANGED <<now, deliveries, pruning>>,
         IncidentsGrow,
         i # None => /\ incidents'[i] # None /\ incidents'[i].monitor = m
                     /\ i \notin pruning.incidents,
         active' \in [Monitors -> Incidents \cup {None}],
         \A n \in Monitors : active'[n] \in {active[n], None} \/ (n = m /\ active'[n] = i)
  PROVE  CleanupInv'
<1> DEFINE event == [monitor |-> m, incident |-> i, at |-> now]
           job == [status |-> "PENDING", at |-> now]
<1>1. event \in C!EventRow /\ job \in C!JobRow /\ event # None /\ job # None
  <2>1. event \in C!EventRow /\ job \in C!JobRow
    BY DEF CleanupInv, Tables, C!EventRow, C!JobRow
  <2> QED
    BY <2>1, RowsAreRows
<1>2. /\ events[e] = None
      /\ events' = [events EXCEPT ![e] = event] /\ jobs' = [jobs EXCEPT ![e] = job]
  BY DEF C!Record
<1>3. event.incident = i /\ event.monitor = m
  OBVIOUS
<1> HIDE DEF event, job
<1>4. Tables'
  BY <1>1, <1>2 DEF CleanupInv, Tables, IncidentsGrow
<1>5. /\ events'[e] = event /\ jobs'[e] = job
      /\ \A d \in Events : d # e => events'[d] = events[d] /\ jobs'[d] = jobs[d]
  BY <1>2 DEF CleanupInv, Tables
<1>6. /\ jobs[e] = None /\ deliveries[e] = None
      /\ e \notin pruning.jobs /\ e \notin pruning.events /\ e \notin pruning.deliveries
  BY <1>2 DEF CleanupInv, References, Doomed
<1>7. \A d \in Events : events[d] # None => events[d].incident \in Incidents \cup {None}
  BY DEF CleanupInv, Tables, C!EventRow
<1>8. /\ pruning.deliveries \subseteq Events /\ pruning.jobs \subseteq Events
      /\ pruning.events \subseteq Events /\ pruning.incidents \subseteq Incidents
  BY DEF CleanupInv, Tables
<1>9. \A n \in Monitors : active[n] \in Incidents \cup {None}
  BY DEF CleanupInv, Tables
<1>10. References'
  BY <1>1, <1>3, <1>5, <1>6, <1>7, <1>9 DEF CleanupInv, References, IncidentsGrow
<1>11. Doomed'
  <2>1. \A d \in pruning.deliveries : deliveries'[d] = deliveries[d]
    OBVIOUS
  <2>2. ASSUME NEW d \in pruning.events, events[d].incident # None
        PROVE  \E n \in Incidents : n = events[d].incident /\ Resolved(n)'
    BY <1>7, <1>8, <2>2 DEF CleanupInv, Doomed, IncidentsGrow
  <2>3. \A n \in pruning.incidents : Resolved(n)' /\ n # i /\ n # None
    BY <1>8, IdsAssumption DEF CleanupInv, Doomed, IncidentsGrow
  <2>4. ASSUME NEW n \in pruning.incidents, NEW d \in Events,
               events'[d] # None, events'[d].incident = n
        PROVE  d \in pruning.events
    BY <1>3, <1>5, <2>3, <2>4 DEF CleanupInv, Doomed
  <2>5. ASSUME NEW n \in pruning.incidents, NEW o \in Monitors PROVE active'[o] # n
    BY <2>3 DEF CleanupInv, Doomed
  <2> QED
    BY <1>5, <1>6, <1>8, <2>1, <2>2, <2>3, <2>4, <2>5 DEF CleanupInv, Doomed, Resolved
<1>12. InOrder'
  BY DEF CleanupInv, InOrder
<1> QED
  BY <1>4, <1>10, <1>11, <1>12 DEF CleanupInv

\* What complete finds: a change, an incident that opens, one that ends.
LEMMA CompleteKeeps ==
  ASSUME CleanupInv, NEW m \in Monitors, NEW e \in Events,
         \/ C!Change(m, e) \/ C!Resolve(m, e)
         \/ \E i \in Incidents : C!Open(m, i, e)
  PROVE  CleanupInv'
<1>0. /\ incidents \in [Incidents -> C!IncidentRow \cup {None}] /\ now \in Nat
      /\ active \in [Monitors -> Incidents \cup {None}]
  BY DEF CleanupInv, Tables
<1>1. active[m] # None =>
          incidents[active[m]] # None /\ incidents[active[m]].monitor = m
          /\ active[m] \notin pruning.incidents
  BY DEF CleanupInv, References, Doomed
<1>2. CASE C!Change(m, e)
  <2>1. IncidentsGrow
    BY <1>0, <1>2 DEF C!Change, IncidentsGrow, Resolved
  <2> QED
    BY <1>0, <1>1, <1>2, <2>1, RecordKeeps DEF C!Change
<1>3. CASE C!Resolve(m, e)
  <2> DEFINE i == active[m]
             row == [incidents[i] EXCEPT !.status = "RESOLVED", !.at = now]
  <2>1. /\ i \in Incidents /\ incidents[i] # None /\ incidents[i] \in C!IncidentRow
        /\ incidents[i].monitor = m
    BY <1>0, <1>1, <1>3 DEF C!Resolve
  <2>2. row \in C!IncidentRow /\ row.monitor = m /\ row.status = "RESOLVED"
    BY <1>0, <2>1 DEF C!IncidentRow
  <2>3. row # None
    BY <2>2, RowsAreRows
  <2>4. /\ incidents' = [incidents EXCEPT ![i] = row]
        /\ active' = [active EXCEPT ![m] = None]
        /\ C!Record(m, i, e) /\ UNCHANGED <<now, deliveries, pruning>>
    BY <1>0, <1>3, <2>1 DEF C!Resolve, C!Ended
  <2> HIDE DEF row
  <2>5. IncidentsGrow
    BY <1>0, <2>1, <2>2, <2>3, <2>4 DEF IncidentsGrow, Resolved
  <2>6. incidents'[i] # None /\ incidents'[i].monitor = m
    BY <1>0, <2>1, <2>2, <2>3, <2>4
  <2> HIDE DEF i
  <2>7. /\ active' \in [Monitors -> Incidents \cup {None}]
        /\ \A n \in Monitors : active'[n] \in {active[n], None}
    BY <1>0, <2>4
  <2> QED
    BY <1>1, <2>1, <2>4, <2>5, <2>6, <2>7, RecordKeeps DEF i
<1>4. ASSUME NEW i \in Incidents, C!Open(m, i, e)
      PROVE  CleanupInv'
  <2> DEFINE row == [monitor |-> m, status |-> "OPEN", at |-> None]
  <2>1. row \in C!IncidentRow /\ row.monitor = m /\ row # None
    <3>1. row \in C!IncidentRow
      BY DEF C!IncidentRow
    <3> QED
      BY <3>1, RowsAreRows
  <2>2. /\ incidents' = [incidents EXCEPT ![i] = row] /\ incidents[i] = None
        /\ active' = [active EXCEPT ![m] = i]
        /\ C!Record(m, i, e) /\ UNCHANGED <<now, deliveries, pruning>>
    BY <1>4 DEF C!Open
  <2> HIDE DEF row
  <2>3. IncidentsGrow
    BY <1>0, <2>1, <2>2 DEF IncidentsGrow, Resolved
  <2>4. i \notin pruning.incidents
    BY <2>2 DEF CleanupInv, Doomed, Resolved
  <2>5. incidents'[i] # None /\ incidents'[i].monitor = m
    BY <1>0, <2>1, <2>2
  <2>6. /\ active' \in [Monitors -> Incidents \cup {None}]
        /\ \A n \in Monitors : active'[n] = active[n] \/ (n = m /\ active'[n] = i)
    BY <1>0, <2>2
  <2> QED
    BY <2>2, <2>3, <2>4, <2>5, <2>6, RecordKeeps
<1> QED
  BY <1>2, <1>3, <1>4

\* An operator acknowledges an incident, which is not over and stays.
LEMMA AcknowledgeKeeps ==
  ASSUME CleanupInv, NEW i \in Incidents, C!Acknowledge(i)
  PROVE  CleanupInv'
<1> DEFINE row == [incidents[i] EXCEPT !.status = "ACKNOWLEDGED"]
<1>1. /\ incidents \in [Incidents -> C!IncidentRow \cup {None}]
      /\ incidents[i] # None /\ incidents[i].status = "OPEN"
      /\ incidents[i] \in C!IncidentRow
  BY DEF C!Acknowledge, C!Rows, CleanupInv, Tables
<1>2. row \in C!IncidentRow /\ row.monitor = incidents[i].monitor
  BY <1>1 DEF C!IncidentRow
<1>3. row # None
  BY <1>2, RowsAreRows
<1>4. /\ incidents' = [incidents EXCEPT ![i] = row]
      /\ UNCHANGED <<now, active, events, jobs, deliveries, pruning>>
  BY <1>1 DEF C!Acknowledge
<1> HIDE DEF row
<1>5. /\ incidents'[i] = row /\ ~Resolved(i)
      /\ \A n \in Incidents \ {i} : incidents'[n] = incidents[n]
  BY <1>1, <1>4 DEF Resolved
<1>6. Tables'
  BY <1>1, <1>2, <1>4 DEF CleanupInv, Tables
<1>7. References'
  <2>1. \A e \in Events : events[e] # None => events[e].incident \in Incidents \cup {None}
    BY DEF CleanupInv, Tables, C!EventRow
  <2>2. \A m \in Monitors : active[m] \in Incidents \cup {None}
    BY DEF CleanupInv, Tables
  <2> QED
    BY <1>2, <1>3, <1>4, <1>5, <2>1, <2>2 DEF CleanupInv, References
<1>8. Doomed'
  <2>1. \A n \in Incidents : Resolved(n) => incidents'[n] = incidents[n]
    BY <1>5
  <2>2. \A e \in pruning.events : events[e].incident \in Incidents \cup {None}
    BY DEF CleanupInv, Tables, Doomed, C!EventRow
  <2>3. pruning.incidents \subseteq Incidents
    BY DEF CleanupInv, Tables
  <2> QED
    BY <1>4, <2>1, <2>2, <2>3 DEF CleanupInv, Doomed, Resolved
<1> QED
  BY <1>4, <1>6, <1>7, <1>8 DEF CleanupInv, InOrder

\* The rows a pass has locked.
LEMMA LockedIs ==
  ASSUME CleanupInv
  PROVE  /\ C!Locked = pruning.deliveries \cup pruning.jobs \cup pruning.events
         /\ C!Locked \subseteq Events
         /\ pruning.incidents \subseteq Incidents
         /\ \A e \in C!Locked : events[e] # None
  BY DEF C!Locked, CleanupInv, Tables, References, Doomed

\* Another question: the incident ends, what is waiting is cancelled, the edit recorded.
LEMMA RedefineKeeps ==
  ASSUME CleanupInv, NEW m \in Monitors, NEW e \in Events, C!Redefine(m, e)
  PROVE  CleanupInv'
<1> DEFINE i == active[m]
           event == [monitor |-> m, incident |-> i, at |-> now]
           mine == C!EventsOf(m)
<1>0. /\ incidents \in [Incidents -> C!IncidentRow \cup {None}] /\ now \in Nat
      /\ active \in [Monitors -> Incidents \cup {None}]
      /\ events \in [Events -> C!EventRow \cup {None}]
      /\ jobs \in [Events -> C!JobRow \cup {None}]
      /\ deliveries \in [Events -> C!DeliveryRow \cup {None}]
  BY DEF CleanupInv, Tables
<1>1. /\ events[e] = None
      /\ mine \cap C!Locked = {}
      /\ active' = [active EXCEPT ![m] = None]
      /\ events' = [events EXCEPT ![e] = event]
      /\ UNCHANGED <<now, pruning>>
  BY DEF C!Redefine
<1>2. i \in Incidents \cup {None}
      /\ (i # None => /\ incidents[i] # None /\ incidents[i].monitor = m
                      /\ i \notin pruning.incidents)
  BY <1>0 DEF CleanupInv, References, Doomed
<1>3. IncidentsGrow
  <2>1. CASE i = None
    BY <1>0, <2>1 DEF C!Redefine, IncidentsGrow, Resolved
  <2>2. CASE i # None
    <3> DEFINE row == [incidents[i] EXCEPT !.status = "RESOLVED", !.at = now]
    <3>1. i \in Incidents /\ incidents[i] \in C!IncidentRow
      BY <1>0, <1>2, <2>2
    <3>2. row \in C!IncidentRow /\ row.monitor = incidents[i].monitor /\ row.status = "RESOLVED"
      BY <1>0, <3>1 DEF C!IncidentRow
    <3>3. row # None
      BY <3>2, RowsAreRows
    <3>4. incidents' = [incidents EXCEPT ![i] = row]
      BY <1>0, <2>2, <3>1 DEF C!Redefine, C!Ended
    <3> HIDE DEF row, i
    <3> QED
      BY <1>0, <3>1, <3>2, <3>3, <3>4 DEF IncidentsGrow, Resolved
  <2> QED
    BY <2>1, <2>2
<1>4. event \in C!EventRow /\ event.monitor = m /\ event.incident = i /\ event # None
  <2>1. event \in C!EventRow
    BY <1>0, <1>2 DEF C!EventRow
  <2> QED
    BY <2>1, RowsAreRows
<1>5. /\ jobs' \in [Events -> C!JobRow \cup {None}]
      /\ \A j \in Events : j \notin mine => jobs'[j] = jobs[j]
      /\ \A j \in Events : jobs'[j] # None <=> jobs[j] # None
  <2>1. \A j \in Events : jobs[j] # None =>
            /\ [jobs[j] EXCEPT !.status = "CANCELLED"] \in C!JobRow
            /\ [jobs[j] EXCEPT !.status = "CANCELLED"] # None
    <3>1. \A row \in C!JobRow : [row EXCEPT !.status = "CANCELLED"] \in C!JobRow
      BY DEF C!JobRow
    <3> QED
      BY <1>0, <3>1, RowsAreRows
  <2>2. \A j \in Events :
            jobs'[j] = IF j \in mine /\ jobs[j] # None
                       THEN [jobs[j] EXCEPT !.status = "CANCELLED"] ELSE jobs[j]
    BY <1>0 DEF C!Redefine, C!Rows
  <2>3. jobs' = [j \in Events |-> jobs'[j]]
    BY DEF C!Redefine
  <2> HIDE DEF mine
  <2> QED
    BY <1>0, <2>1, <2>2, <2>3
<1>6. /\ deliveries' \in [Events -> C!DeliveryRow \cup {None}]
      /\ \A j \in Events : j \notin mine => deliveries'[j] = deliveries[j]
      /\ \A j \in Events : deliveries'[j] # None <=> deliveries[j] # None
  <2>1. \A j \in Events : deliveries[j] # None =>
            /\ [deliveries[j] EXCEPT !.status = "CANCELLED"] \in C!DeliveryRow
            /\ [deliveries[j] EXCEPT !.status = "CANCELLED"] # None
    <3>1. \A row \in C!DeliveryRow : [row EXCEPT !.status = "CANCELLED"] \in C!DeliveryRow
      BY DEF C!DeliveryRow, C!Terminal
    <3> QED
      BY <1>0, <3>1, RowsAreRows
  <2>2. \A j \in Events :
            deliveries'[j] =
                IF j \in mine /\ deliveries[j] # None /\ deliveries[j].status # "SENT"
                THEN [deliveries[j] EXCEPT !.status = "CANCELLED"] ELSE deliveries[j]
    BY <1>0 DEF C!Redefine, C!Rows
  <2>3. deliveries' = [j \in Events |-> deliveries'[j]]
    BY DEF C!Redefine
  <2> HIDE DEF mine
  <2> QED
    BY <1>0, <2>1, <2>2, <2>3
<1> HIDE DEF event, mine
<1>7. /\ events'[e] = event /\ \A d \in Events : d # e => events'[d] = events[d]
      /\ active'[m] = None /\ \A n \in Monitors : n # m => active'[n] = active[n]
      /\ active' \in [Monitors -> Incidents \cup {None}]
  BY <1>0, <1>1
<1>8. \A d \in Events : events[d] # None => events[d].incident \in Incidents \cup {None}
  BY <1>0 DEF C!EventRow
<1>9. \A d \in C!Locked : d \in Events /\ d \notin mine /\ events[d] # None /\ d # e
  BY <1>1, LockedIs
<1>10. C!Locked = pruning.deliveries \cup pruning.jobs \cup pruning.events
       /\ pruning.incidents \subseteq Incidents
  BY LockedIs
<1>11. Tables'
  BY <1>0, <1>1, <1>3, <1>4, <1>5, <1>6, <1>7 DEF CleanupInv, Tables, IncidentsGrow
<1>12. References'
  <2>1. \A d \in Events : events[d] # None => events'[d] # None
    BY <1>4, <1>7
  <2>2. ASSUME NEW d \in Events, events'[d] # None, events'[d].incident # None
        PROVE  /\ incidents'[events'[d].incident] # None
               /\ incidents'[events'[d].incident].monitor = events'[d].monitor
    <3>1. CASE d = e
      BY <1>2, <1>3, <1>4, <1>7, <2>2, <3>1 DEF IncidentsGrow
    <3>2. CASE d # e
      BY <1>3, <1>7, <1>8, <2>2, <3>2 DEF IncidentsGrow, CleanupInv, References
    <3> QED
      BY <3>1, <3>2
  <2>3. ASSUME NEW n \in Monitors, active'[n] # None
        PROVE  incidents'[active'[n]] # None /\ incidents'[active'[n]].monitor = n
    BY <1>0, <1>3, <1>7, <2>3 DEF IncidentsGrow, CleanupInv, References
  <2> QED
    BY <1>5, <1>6, <2>1, <2>2, <2>3 DEF CleanupInv, References
<1>13. Doomed'
  <2>1. \A d \in C!Locked :
            events'[d] = events[d] /\ jobs'[d] = jobs[d] /\ deliveries'[d] = deliveries[d]
    BY <1>5, <1>6, <1>7, <1>9
  <2>2. \A n \in pruning.incidents : Resolved(n)' /\ n # i
    BY <1>2, <1>3, <1>10, IdsAssumption DEF CleanupInv, Doomed, IncidentsGrow
  <2>3. ASSUME NEW d \in pruning.events, events[d].incident # None
        PROVE  \E n \in Incidents : n = events[d].incident /\ Resolved(n)'
    BY <1>3, <1>8, <1>9, <1>10, <2>3 DEF CleanupInv, Doomed, IncidentsGrow
  <2>4. ASSUME NEW n \in pruning.incidents, NEW d \in Events,
               events'[d] # None, events'[d].incident = n
        PROVE  d \in pruning.events
    BY <1>4, <1>7, <2>2, <2>4 DEF CleanupInv, Doomed
  <2>5. ASSUME NEW n \in pruning.incidents, NEW o \in Monitors PROVE active'[o] # n
    BY <1>7, <1>10, IdsAssumption DEF CleanupInv, Doomed
  <2> QED
    BY <1>1, <1>10, <2>1, <2>2, <2>3, <2>4, <2>5 DEF CleanupInv, Doomed, Resolved
<1> QED
  BY <1>1, <1>11, <1>12, <1>13 DEF CleanupInv, InOrder

\* A monitor takes all it has along, none of which a pass has locked.
LEMMA DeleteKeeps ==
  ASSUME CleanupInv, NEW m \in Monitors, C!DeleteMonitor(m)
  PROVE  CleanupInv'
<1> DEFINE mine == {e \in Events : events[e] # None /\ events[e].monitor = m}
           hers == {i \in Incidents : incidents[i] # None /\ incidents[i].monitor = m}
<1>0. /\ incidents \in [Incidents -> C!IncidentRow \cup {None}]
      /\ active \in [Monitors -> Incidents \cup {None}]
      /\ events \in [Events -> C!EventRow \cup {None}]
      /\ jobs \in [Events -> C!JobRow \cup {None}]
      /\ deliveries \in [Events -> C!DeliveryRow \cup {None}]
  BY DEF CleanupInv, Tables
<1>1. /\ C!EventsOf(m) = mine
      /\ {i \in C!Rows(incidents) : incidents[i].monitor = m} = hers
  BY <1>0 DEF C!EventsOf, C!Rows
<1>2. /\ mine \cap C!Locked = {} /\ hers \cap pruning.incidents = {}
      /\ active' = [active EXCEPT ![m] = None]
      /\ incidents' = [i \in Incidents |-> IF i \in hers THEN None ELSE incidents[i]]
      /\ events' = [e \in Events |-> IF e \in mine THEN None ELSE events[e]]
      /\ jobs' = [e \in Events |-> IF e \in mine THEN None ELSE jobs[e]]
      /\ deliveries' = [e \in Events |-> IF e \in mine THEN None ELSE deliveries[e]]
      /\ UNCHANGED <<now, pruning>>
  BY <1>0, <1>1 DEF C!DeleteMonitor, C!Without
<1>3. /\ \A e \in Events : e \in mine <=> events[e] # None /\ events[e].monitor = m
      /\ \A i \in Incidents : i \in hers <=> incidents[i] # None /\ incidents[i].monitor = m
  OBVIOUS
<1> HIDE DEF mine, hers
<1>4. Tables'
  BY <1>0, <1>2 DEF CleanupInv, Tables
<1>5. \A e \in Events : events[e] # None => events[e].incident \in Incidents \cup {None}
  BY <1>0 DEF C!EventRow
<1>6. References'
  BY <1>0, <1>2, <1>3, <1>5 DEF CleanupInv, References
<1>7. Doomed'
  <2>1. /\ C!Locked = pruning.deliveries \cup pruning.jobs \cup pruning.events
        /\ \A e \in C!Locked : e \in Events /\ e \notin mine /\ events[e] # None
        /\ \A i \in pruning.incidents : i \in Incidents /\ i \notin hers
    BY <1>2, LockedIs
  <2>2. \A e \in C!Locked :
            events'[e] = events[e] /\ jobs'[e] = jobs[e] /\ deliveries'[e] = deliveries[e]
    BY <1>2, <2>1
  <2>3. \A i \in pruning.incidents : incidents'[i] = incidents[i]
    BY <1>2, <2>1
  <2>4. ASSUME NEW e \in pruning.events, events[e].incident # None
        PROVE  incidents'[events[e].incident] = incidents[events[e].incident]
    BY <1>2, <1>3, <1>5, <2>1, <2>4 DEF CleanupInv, References
  <2>5. ASSUME NEW i \in pruning.incidents, NEW e \in Events,
               events'[e] # None, events'[e].incident = i
        PROVE  e \in pruning.events
    BY <1>2, <2>5 DEF CleanupInv, Doomed
  <2>6. ASSUME NEW i \in pruning.incidents, NEW o \in Monitors PROVE active'[o] # i
    BY <1>0, <1>2, <2>1, IdsAssumption DEF CleanupInv, Doomed
  <2> QED
    BY <1>2, <2>1, <2>2, <2>3, <2>4, <2>5, <2>6 DEF CleanupInv, Doomed, Resolved
<1> QED
  BY <1>2, <1>4, <1>6, <1>7 DEF CleanupInv, InOrder

\* Alerts are routed, settled and retried, unless a pass has locked them.
LEMMA NotifyingKeeps ==
  ASSUME CleanupInv, NEW e \in Events,
         C!Route(e) \/ C!Retry(e) \/ \E status \in C!Terminal : C!Settle(e, status)
  PROVE  CleanupInv'
<1>0. /\ jobs \in [Events -> C!JobRow \cup {None}] /\ now \in Nat
      /\ deliveries \in [Events -> C!DeliveryRow \cup {None}]
  BY DEF CleanupInv, Tables
<1>1. UNCHANGED <<now, active, incidents, events, pruning>>
  BY DEF C!Route, C!Retry, C!Settle
<1>2. e \notin C!Locked /\ jobs[e] # None
  BY <1>0 DEF C!Route, C!Retry, C!Settle, C!Rows, CleanupInv, References
<1>3. /\ jobs' = jobs \/ \E status \in {"ROUTED", "IGNORED"} :
                            jobs' = [jobs EXCEPT ![e].status = status]
      /\ \/ deliveries' = deliveries
         \/ \E status \in C!Terminal \cup {"PENDING"} :
                deliveries' = [deliveries EXCEPT ![e] = [status |-> status, at |-> now]]
  BY DEF C!Route, C!Retry, C!Settle
<1>4. /\ jobs' \in [Events -> C!JobRow \cup {None}]
      /\ \A d \in Events : jobs'[d] # None <=> jobs[d] # None
      /\ \A d \in Events : d # e => jobs'[d] = jobs[d]
  <2>1. CASE jobs' = jobs
    BY <1>0, <2>1
  <2>2. ASSUME NEW status \in {"ROUTED", "IGNORED"}, jobs' = [jobs EXCEPT ![e].status = status]
        PROVE  /\ jobs' \in [Events -> C!JobRow \cup {None}]
               /\ \A d \in Events : jobs'[d] # None <=> jobs[d] # None
               /\ \A d \in Events : d # e => jobs'[d] = jobs[d]
    <3> DEFINE row == [jobs[e] EXCEPT !.status = status]
    <3>1. row \in C!JobRow
      BY <1>0, <1>2 DEF C!JobRow
    <3>2. row # None
      BY <3>1, RowsAreRows
    <3>3. jobs' = [jobs EXCEPT ![e] = row]
      BY <1>0, <2>2
    <3> HIDE DEF row
    <3> QED
      BY <1>0, <1>2, <3>1, <3>2, <3>3
  <2> QED
    BY <1>3, <2>1, <2>2
<1>5. /\ deliveries' \in [Events -> C!DeliveryRow \cup {None}]
      /\ \A d \in Events : d # e => deliveries'[d] = deliveries[d]
  <2>1. \A status \in C!Terminal \cup {"PENDING"} :
            [status |-> status, at |-> now] \in C!DeliveryRow
    BY <1>0 DEF C!DeliveryRow
  <2> QED
    BY <1>0, <1>3, <2>1
<1>6. Tables' /\ References'
  BY <1>1, <1>2, <1>4, <1>5 DEF CleanupInv, Tables, References
<1>7. Doomed'
  <2>1. \A d \in pruning.deliveries \cup pruning.jobs \cup pruning.events : d \in Events /\ d # e
    BY <1>2, LockedIs
  <2> QED
    BY <1>1, <1>4, <1>5, <2>1 DEF CleanupInv, Doomed, Resolved
<1> QED
  BY <1>1, <1>6, <1>7 DEF CleanupInv, InOrder

\* A pass takes a subset of what it looks for.
LEMMA CleanupBatch == \A rows : \A b \in C!Batches(rows) : b \subseteq rows
  BY DEF C!Batches

\* Each statement takes rows that nothing refers to any more.
LEMMA PruneKeeps ==
  ASSUME CleanupInv,
         C!PruneDeliveries \/ C!PruneJobs \/ C!PruneEvents \/ C!PruneIncidents
  PROVE  CleanupInv'
<1>0. /\ UNCHANGED <<now, active, incidents, events, jobs, deliveries>>
  BY DEF C!PruneDeliveries, C!PruneJobs, C!PruneEvents, C!PruneIncidents, C!Prune, C!tables
<1>1. /\ C!Rows(deliveries) = {d \in Events : deliveries[d] # None}
      /\ C!Rows(jobs) = {d \in Events : jobs[d] # None}
      /\ C!Rows(events) = {d \in Events : events[d] # None}
      /\ C!Rows(incidents) = {n \in Incidents : incidents[n] # None}
  BY DEF CleanupInv, Tables, C!Rows
<1>2. pruning \in [pc : {"NONE", "DELIVERIES", "JOBS", "EVENTS", "INCIDENTS", "COMMIT"},
                   now : Nat, deliveries : SUBSET Events, jobs : SUBSET Events,
                   events : SUBSET Events, incidents : SUBSET Incidents]
  BY DEF CleanupInv, Tables
<1>3. Tables' /\ Doomed' /\ InOrder'
  <2>1. CASE C!PruneDeliveries
    <3>1. PICK b \in C!Batches(C!OldDeliveries) :
              pruning' = [pruning EXCEPT !.pc = "JOBS", !.deliveries = b]
      BY <2>1 DEF C!PruneDeliveries, C!Prune
    <3>2. \A d \in b : d \in Events /\ deliveries[d] # None
                       /\ deliveries[d].status \in C!Terminal
      BY <1>1, CleanupBatch DEF C!OldDeliveries
    <3>3. /\ pruning.pc = "DELIVERIES" /\ pruning.jobs = {} /\ pruning.events = {}
          /\ pruning.incidents = {}
      BY <2>1 DEF C!PruneDeliveries, C!Prune, CleanupInv, InOrder
    <3>4. /\ pruning'.pc = "JOBS" /\ pruning'.deliveries = b /\ pruning'.jobs = {}
          /\ pruning'.events = {} /\ pruning'.incidents = {} /\ pruning'.now = pruning.now
      BY <1>2, <3>1, <3>3
    <3>5. Tables'
      BY <1>0, <1>2, <3>1, <3>2 DEF CleanupInv, Tables
    <3>6. Doomed' /\ InOrder'
      BY <1>0, <3>2, <3>4 DEF CleanupInv, Doomed, InOrder
    <3> QED
      BY <3>5, <3>6
  <2>2. CASE C!PruneJobs
    <3>1. PICK b \in C!Batches(C!OldJobs) :
              pruning' = [pruning EXCEPT !.pc = "EVENTS", !.jobs = b]
      BY <2>2 DEF C!PruneJobs, C!Prune
    <3>2. \A d \in b : d \in Events /\ jobs[d] # None /\ jobs[d].status # "PENDING"
                       /\ (deliveries[d] # None => d \in pruning.deliveries)
      BY <1>1, CleanupBatch DEF C!OldJobs
    <3>3. /\ pruning.pc = "JOBS" /\ pruning.events = {} /\ pruning.incidents = {}
      BY <2>2 DEF C!PruneJobs, C!Prune, CleanupInv, InOrder
    <3>4. /\ pruning'.pc = "EVENTS" /\ pruning'.deliveries = pruning.deliveries
          /\ pruning'.jobs = b /\ pruning'.events = {} /\ pruning'.incidents = {}
      BY <1>2, <3>1, <3>3
    <3>5. Tables'
      BY <1>0, <1>2, <3>1, <3>2 DEF CleanupInv, Tables
    <3>6. Doomed' /\ InOrder'
      BY <1>0, <3>2, <3>4 DEF CleanupInv, Doomed, InOrder
    <3> QED
      BY <3>5, <3>6
  <2>3. CASE C!PruneEvents
    <3>1. PICK b \in C!Batches(C!OldEvents) :
              pruning' = [pruning EXCEPT !.pc = "INCIDENTS", !.events = b]
      BY <2>3 DEF C!PruneEvents, C!Prune
    <3>2. \A d \in b : /\ d \in Events /\ events[d] # None
                       /\ events[d].incident = None \/ Resolved(events[d].incident)
                       /\ jobs[d] # None => d \in pruning.jobs
      BY <1>1, CleanupBatch DEF C!OldEvents, C!Resolved, Resolved
    <3>3. /\ pruning.pc = "EVENTS" /\ pruning.incidents = {}
      BY <2>3 DEF C!PruneEvents, C!Prune, CleanupInv, InOrder
    <3>4. /\ pruning'.pc = "INCIDENTS" /\ pruning'.deliveries = pruning.deliveries
          /\ pruning'.jobs = pruning.jobs /\ pruning'.events = b /\ pruning'.incidents = {}
      BY <1>2, <3>1, <3>3
    <3>5. Tables'
      BY <1>0, <1>2, <3>1, <3>2 DEF CleanupInv, Tables
    <3>6. Doomed' /\ InOrder'
      BY <1>0, <3>2, <3>4 DEF CleanupInv, Doomed, InOrder, Resolved
    <3> QED
      BY <3>5, <3>6
  <2>4. CASE C!PruneIncidents
    <3>1. PICK b \in C!Batches(C!OldIncidents) :
              pruning' = [pruning EXCEPT !.pc = "COMMIT", !.incidents = b]
      BY <2>4 DEF C!PruneIncidents, C!Prune
    <3>2. \A n \in b : /\ n \in Incidents /\ Resolved(n)
                       /\ \A d \in Events :
                              events[d] # None /\ events[d].incident = n => d \in pruning.events
                       /\ \A m \in Monitors : active[m] # n
      BY <1>1, CleanupBatch DEF C!OldIncidents, C!Resolved, Resolved
    <3>3. /\ pruning'.pc = "COMMIT" /\ pruning'.deliveries = pruning.deliveries
          /\ pruning'.jobs = pruning.jobs /\ pruning'.events = pruning.events
          /\ pruning'.incidents = b
      BY <1>2, <3>1
    <3>4. Tables'
      BY <1>0, <1>2, <3>1, <3>2 DEF CleanupInv, Tables
    <3>5. Doomed' /\ InOrder'
      BY <1>0, <3>2, <3>3 DEF CleanupInv, Doomed, InOrder, Resolved
    <3> QED
      BY <3>4, <3>5
  <2> QED
    BY <2>1, <2>2, <2>3, <2>4
<1> QED
  BY <1>0, <1>3 DEF CleanupInv, References

\* No pass is under way.
LEMMA NoSweepHoldsNothing ==
  /\ C!NoSweep.pc = "NONE" /\ C!NoSweep.deliveries = {} /\ C!NoSweep.jobs = {}
  /\ C!NoSweep.events = {} /\ C!NoSweep.incidents = {}
  /\ C!NoSweep \in [pc : {"NONE", "DELIVERIES", "JOBS", "EVENTS", "INCIDENTS", "COMMIT"},
                    now : Nat, deliveries : SUBSET Events, jobs : SUBSET Events,
                    events : SUBSET Events, incidents : SUBSET Incidents]
  BY DEF C!NoSweep

\* A pass begins with nothing, fails without a trace, or deletes what it has taken.
LEMMA SweepKeepsCleanup ==
  ASSUME CleanupInv, C!StartSweep \/ C!CommitSweep \/ C!AbortSweep
  PROVE  CleanupInv'
<1>1. CASE C!StartSweep
  <2>1. /\ UNCHANGED <<now, active, incidents, events, jobs, deliveries>>
        /\ pruning = C!NoSweep
        /\ pruning' = [pruning EXCEPT !.pc = "DELIVERIES", !.now = now]
    BY <1>1 DEF C!StartSweep, C!tables
  <2>2. /\ pruning'.pc = "DELIVERIES" /\ pruning'.deliveries = {} /\ pruning'.jobs = {}
        /\ pruning'.events = {} /\ pruning'.incidents = {}
    BY <2>1 DEF C!NoSweep
  <2>3. Tables'
    BY <2>1, NoSweepHoldsNothing DEF CleanupInv, Tables
  <2> QED
    BY <2>1, <2>2, <2>3 DEF CleanupInv, References, Doomed, InOrder
<1>2. CASE C!AbortSweep
  <2>1. UNCHANGED <<now, active, incidents, events, jobs, deliveries>> /\ pruning' = C!NoSweep
    BY <1>2 DEF C!AbortSweep, C!tables
  <2> QED
    BY <2>1, NoSweepHoldsNothing DEF CleanupInv, Tables, References, Doomed, InOrder
<1>3. CASE C!CommitSweep
  <2>1. /\ incidents' = [n \in Incidents |-> IF n \in pruning.incidents THEN None ELSE incidents[n]]
        /\ events' = [e \in Events |-> IF e \in pruning.events THEN None ELSE events[e]]
        /\ jobs' = [e \in Events |-> IF e \in pruning.jobs THEN None ELSE jobs[e]]
        /\ deliveries' =
               [e \in Events |-> IF e \in pruning.deliveries THEN None ELSE deliveries[e]]
        /\ pruning' = C!NoSweep /\ UNCHANGED <<now, active>>
    BY <1>3 DEF C!CommitSweep, C!Without, CleanupInv, Tables
  <2>2. Tables'
    BY <2>1, NoSweepHoldsNothing DEF CleanupInv, Tables
  <2>3. \A e \in Events : events[e] # None => events[e].incident \in Incidents \cup {None}
    BY DEF CleanupInv, Tables, C!EventRow
  <2>4. \A m \in Monitors : active[m] \in Incidents \cup {None}
    BY DEF CleanupInv, Tables
  <2>5. References'
    BY <2>1, <2>3, <2>4 DEF CleanupInv, References, Doomed
  <2>6. Doomed' /\ InOrder'
    BY <2>1, NoSweepHoldsNothing DEF Doomed, InOrder
  <2> QED
    BY <2>2, <2>5, <2>6 DEF CleanupInv
<1> QED
  BY <1>1, <1>2, <1>3

\* Every step of either half.
LEMMA CleanupStep == CleanupInv /\ [Next]_vars => CleanupInv'
<1> SUFFICES ASSUME CleanupInv, [Next]_vars PROVE CleanupInv'
  OBVIOUS
<1>1. now \in Nat
  BY DEF CleanupInv, Tables
<1>2. CASE C!Next
  <2>1. CASE C!Tick
    BY <1>1, <2>1, CleanupWaits DEF C!Tick, C!tables, cleanup
  <2> QED
    BY <1>2, <2>1, CompleteKeeps, AcknowledgeKeeps, RedefineKeeps, DeleteKeeps, NotifyingKeeps,
       PruneKeeps, SweepKeepsCleanup DEF C!Next, C!Sweeping, C!Monitoring, C!Notifying
<1>3. CASE A!Next /\ UNCHANGED cleanup
  <2>1. now' = now \/ now' = now + 1
    BY <1>3 DEF A!Next, A!Sweeping, A!StartSweep, A!CommitSweep, A!AbortSweep, A!Tick, A!Edit,
                A!DeleteMonitor, A!StartCheck, A!EndCheck
  <2> QED
    BY <1>1, <1>3, <2>1, CleanupWaits
<1>4. CASE UNCHANGED vars
  BY <1>1, <1>4, CleanupWaits DEF vars
<1> QED
  BY <1>2, <1>3, <1>4 DEF Next, Archiving, CleaningUp

\* There are no rows.
LEMMA CleanupInit == Init => CleanupInv
  BY NoSweepHoldsNothing
     DEF Init, C!Init, CleanupInv, Tables, References, Doomed, InOrder

\* The invariant of the clean-up.
LEMMA CleanupInvHolds == Spec => []CleanupInv
  BY CleanupInit, CleanupStep, PTL DEF Spec

\* Whatever else is committed between its statements, a pass deletes no row that another
\* row still refers to (retention.ts:88-94).
THEOREM NothingDangles == Spec => []ReferencesHold
<1>1. CleanupInv => ReferencesHold
  BY ReferencesAre DEF CleanupInv
<1> QED
  BY <1>1, CleanupInvHolds, PTL

\* What is still in progress stays, also when it became so after the pass began: a pass
\* deletes no incident that is not resolved, no event of one, no job that is not routed
\* and no delivery that may still be sent (retention.ts:88-94).
THEOREM LiveRowsAreKept == Spec => LiveRowsStay
<1> DEFINE Stays ==
        pruning # C!NoSweep /\ pruning' = C!NoSweep =>
           /\ \A i \in C!Rows(incidents) : ~C!Resolved(i) => i \in C!Rows(incidents')
           /\ \A e \in C!Rows(events) :
                  /\ events[e].incident # None /\ ~C!Resolved(events[e].incident)
                         => e \in C!Rows(events')
                  /\ e \in C!Rows(jobs) /\ jobs[e].status = "PENDING" => e \in C!Rows(jobs')
                  /\ e \in C!Rows(deliveries) /\ deliveries[e].status = "PENDING"
                         => e \in C!Rows(deliveries')
<1>1. CleanupInv /\ [Next]_vars => [Stays]_(C!vars)
  <2> SUFFICES ASSUME CleanupInv, [Next]_vars, pruning # C!NoSweep, pruning' = C!NoSweep
               PROVE  Stays
    OBVIOUS
  <2>1. CASE C!AbortSweep
    BY <2>1 DEF C!AbortSweep, C!tables
  <2>2. CASE C!CommitSweep
    <3>1. /\ C!Rows(deliveries) = {e \in Events : deliveries[e] # None}
          /\ C!Rows(jobs) = {e \in Events : jobs[e] # None}
          /\ C!Rows(events) = {e \in Events : events[e] # None}
          /\ C!Rows(incidents) = {i \in Incidents : incidents[i] # None}
      BY DEF CleanupInv, Tables, C!Rows
    <3>2. /\ C!Rows(deliveries') = C!Rows(deliveries) \ pruning.deliveries
          /\ C!Rows(jobs') = C!Rows(jobs) \ pruning.jobs
          /\ C!Rows(events') = C!Rows(events) \ pruning.events
          /\ C!Rows(incidents') = C!Rows(incidents) \ pruning.incidents
      BY <2>2, <3>1 DEF C!CommitSweep, C!Without, C!Rows, CleanupInv, Tables
    <3>3. \A i : Resolved(i) /\ i \in C!Rows(incidents) => C!Resolved(i)
      BY DEF Resolved, C!Resolved
    <3>4. \A e \in pruning.events : e \in Events /\ events[e].incident \in Incidents \cup {None}
      BY DEF CleanupInv, Tables, Doomed, C!EventRow
    <3>5. \A e \in pruning.events : events[e].incident = None \/ C!Resolved(events[e].incident)
      BY <3>1, <3>3, <3>4 DEF CleanupInv, Doomed, Resolved
    <3>6. \A i \in pruning.incidents : C!Resolved(i)
      BY <3>1, <3>3 DEF CleanupInv, Tables, Doomed, Resolved
    <3> QED
      BY <3>2, <3>5, <3>6 DEF CleanupInv, Doomed, C!Terminal
  <2>3. CASE UNCHANGED pruning
    BY <2>3
  <2>4. C!AbortSweep \/ C!CommitSweep \/ UNCHANGED pruning \/ pruning'.pc # "NONE"
    <3>1. pruning \in [pc : {"NONE", "DELIVERIES", "JOBS", "EVENTS", "INCIDENTS", "COMMIT"},
                       now : Nat, deliveries : SUBSET Events, jobs : SUBSET Events,
                       events : SUBSET Events, incidents : SUBSET Incidents]
      BY DEF CleanupInv, Tables
    <3>2. CASE C!Next
      <4>1. CASE C!StartSweep \/ C!PruneDeliveries \/ C!PruneJobs \/ C!PruneEvents
                 \/ C!PruneIncidents
        BY <3>1, <4>1 DEF C!StartSweep, C!PruneDeliveries, C!PruneJobs, C!PruneEvents,
                          C!PruneIncidents, C!Prune
      <4> QED
        BY <3>2, <4>1 DEF C!Next, C!Sweeping, C!Monitoring, C!Change, C!Resolve, C!Redefine,
               C!Open, C!DeleteMonitor, C!Acknowledge, C!Notifying, C!Route, C!Retry,
               C!Settle, C!Tick
    <3> QED
      BY <3>2 DEF Next, Archiving, CleaningUp, cleanup, vars
  <2> QED
    BY <2>1, <2>2, <2>3, <2>4, NoSweepHoldsNothing
<1> QED
  BY <1>1, CleanupInvHolds, PTL DEF Spec, LiveRowsStay, C!LiveRowsStay

===============================================================================
