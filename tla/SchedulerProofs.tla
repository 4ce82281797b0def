--------------------------- MODULE SchedulerProofs ---------------------------
(***************************************************************************)
(* Safety of Scheduler for every number of monitors, workers, clients and  *)
(* tokens, every set of configurations and every bound; then what workers  *)
(* and clients remember across the edits of a monitor, and that Scheduler  *)
(* implements MonitorLife.                                                 *)
(***************************************************************************)
EXTENDS SchedulerLife, FiniteSetTheorems, TLAPS

(***************************** the evaluator *******************************)

\* The value that wins is one that a resolver returned.
LEMMA ConsensusType ==
    ASSUME NEW c \in Configs, NEW results \in [c.resolvers -> Answers]
    PROVE  /\ Consensus(c, results).value \in SUBSET Records
           /\ Consensus(c, results).degraded \in BOOLEAN
<1>1. CASE Winners(c, results) = {}
  BY <1>1 DEF Consensus, NoValue
<1>2. CASE Winners(c, results) # {}
  <2> DEFINE winner == CHOOSE value \in Winners(c, results) : TRUE
  <2>1. winner \in Winners(c, results)
    BY <1>2
  <2>2. winner \in Answers
    BY <2>1 DEF Winners
  <2>3. winner \in SUBSET Records
    BY <2>2 DEF Records
  <2>4. Consensus(c, results).value = winner
    BY <1>2 DEF Consensus
  <2>5. Consensus(c, results).degraded \in BOOLEAN
    BY <1>2 DEF Consensus
  <2> QED
    BY <2>3, <2>4, <2>5
<1> QED
  BY <1>1, <1>2

\* A check moves a well-formed state to a well-formed state.
LEMMA EvaluateType ==
    ASSUME NEW c \in Configs, NEW s \in StateType,
           NEW results \in [c.resolvers -> Answers], NEW t \in Nat
    PROVE  Evaluate(c, s, results, t) \in StateType
<1> DEFINE o == Consensus(c, results)
<1>1. o.value \in SUBSET Records /\ o.degraded \in BOOLEAN
  BY ConsensusType
<1>2. /\ c.failureThreshold \in Nat /\ c.recoveryThreshold \in Nat
      /\ c.changeThreshold \in Nat
  BY ConfigsAssumption
<1>3. AfterFailure(c, s) \in StateType
  <2> DEFINE failures == AtMost(s.failures + 1, c.failureThreshold)
             open     == s.incidentOpen \/ failures >= c.failureThreshold
             status   == IF open THEN "CRITICAL" ELSE "WARNING"
  <2>1. failures \in Nat
    BY <1>2 DEF StateType, AtMost
  <2>2. open \in BOOLEAN /\ status \in Statuses
    BY DEF Statuses
  <2>3. AfterFailure(c, s) =
          [s EXCEPT !.failures = failures, !.successes = 0, !.candidate = NoValue,
                    !.candidateCount = 0, !.incidentOpen = open, !.status = status]
    BY DEF AfterFailure
  <2> HIDE DEF failures, open, status
  <2> DEFINE counted == [s EXCEPT !.failures = failures, !.successes = 0,
                                  !.candidate = NoValue, !.candidateCount = 0]
  <2>4. counted \in StateType
    BY <2>1 DEF StateType, NoValue
  <2>5. AfterFailure(c, s) = [counted EXCEPT !.incidentOpen = open, !.status = status]
    BY <2>3 DEF StateType
  <2> HIDE DEF counted
  <2> QED
    BY <2>2, <2>4, <2>5 DEF StateType
<1>4. ASSUME NEW u \in StateType PROVE Watched(c, u, o.value) \in StateType
  <2> DEFINE n == CandidateRun(u, o.value)
  <2>1. n \in Nat
    BY DEF CandidateRun, StateType
  <2> HIDE DEF n, o
  <2>2. [u EXCEPT !.candidate = NoValue, !.candidateCount = 0] \in StateType
    BY DEF StateType, NoValue
  <2>3. [u EXCEPT !.baseline = o.value, !.candidate = NoValue, !.candidateCount = 0] \in StateType
    BY <1>1 DEF StateType, NoValue
  <2>4. [u EXCEPT !.candidate = o.value, !.candidateCount = n] \in StateType
    BY <1>1, <2>1 DEF StateType
  <2> QED
    BY <2>2, <2>3, <2>4 DEF Watched, n
<1>5. ASSUME NEW u \in StateType, NEW d \in BOOLEAN PROVE SettledStatus(c, u, d) \in Statuses
  BY DEF SettledStatus, Statuses
<1>6. AfterSuccess(c, s, o) \in StateType
  <2> DEFINE successes == AtMost(s.successes + 1, c.recoveryThreshold)
             counted == [s EXCEPT !.failures = 0, !.successes = successes,
                                  !.incidentOpen = @ /\ successes < c.recoveryThreshold]
             watched == IF c.mode = "WATCH" THEN Watched(c, counted, o.value) ELSE counted
  <2>0. successes \in Nat /\ (s.incidentOpen /\ successes < c.recoveryThreshold) \in BOOLEAN
    BY <1>2 DEF StateType, AtMost
  <2>1. counted \in StateType
    <3> HIDE DEF successes
    <3>1. [s EXCEPT !.failures = 0, !.successes = successes,
                    !.incidentOpen = s.incidentOpen /\ successes < c.recoveryThreshold] \in StateType
      BY <2>0 DEF StateType
    <3> QED
      BY <3>1
  <2>2. watched \in StateType
    BY <2>1, <1>4
  <2>3. SettledStatus(c, watched, o.degraded) \in Statuses
    BY <2>2, <1>1, <1>5
  <2>4. [watched EXCEPT !.status = SettledStatus(c, watched, o.degraded)] \in StateType
    BY <2>2, <2>3 DEF StateType
  <2> QED
    BY <2>4 DEF AfterSuccess
<1>7. ASSUME NEW u \in StateType PROVE [u EXCEPT !.lastCheckedAt = t] \in StateType
  BY DEF StateType
<1> QED
  BY <1>3, <1>6, <1>7 DEF Evaluate

\* So does a reset, and the state of a new monitor is well-formed.
LEMMA ResetType == ASSUME NEW s \in StateType PROVE ResetStreaks(s) \in StateType
  BY DEF ResetStreaks, StateType, Statuses, NoValue

\* The state of a monitor that has learned nothing is well typed (initialState).
LEMMA InitialStateType ==
    InitialState \in StateType /\ Fresh \in [state : StateType, active : Tokens \cup {None}]
  BY DEF InitialState, Fresh, StateType, Statuses, NoValue

(******************************** time *************************************)

\* The next slot is after the end of the check and within one interval of it, or
\* within one interval of a slot that was still to come: whatever the delay, a
\* monitor neither runs again at once nor skips a slot.
THEOREM NextSlotIsTheFirst ==
    ASSUME NEW s \in Nat, NEW f \in Nat, NEW i \in Nat \ {0}
    PROVE  /\ NextSlot(s, f, i) \in Nat
           /\ NextSlot(s, f, i) > f
           /\ s <= f => NextSlot(s, f, i) <= f + i
<1> DEFINE k == (f - s) \div i
<1>1. k \in Int /\ k * i <= f - s /\ f - s < (k + 1) * i
  OBVIOUS
<1>2. CASE s <= f
  <2>1. k >= 0
    BY <1>1, <1>2
  <2>2. NextSlot(s, f, i) = s + (k + 1) * i
    BY <2>1, <1>1 DEF NextSlot
  <2>3. (k + 1) * i = k * i + i
    BY <1>1
  <2>4. (k + 1) * i \in Nat /\ k * i \in Int
    BY <1>1, <2>1
  <2> QED
    BY <1>1, <2>2, <2>3, <2>4
<1>3. CASE f < s
  <2>1. k + 1 < 1
    BY <1>1, <1>3
  <2>2. NextSlot(s, f, i) = s + i
    BY <2>1, <1>1 DEF NextSlot
  <2> QED
    BY <2>2, <1>3
<1> QED
  BY <1>2, <1>3

\* The expiry of a lease is a time (claimDue, repository.ts:77-79).
LEMMA LeaseEndType ==
    ASSUME NEW c \in Configs, NEW t \in Nat PROVE LeaseEnd(c, t) \in Nat
<1>1. Cardinality(c.resolvers) \in Nat
  BY ConfigsAssumption, FS_CardinalityType
<1>2. c.timeout * Cardinality(c.resolvers) \in Nat
  BY <1>1, ConfigsAssumption
<1> QED
  BY <1>2, DelaysAssumption DEF LeaseEnd

(******************************** types ************************************)

\* The events and jobs of a commit are rows of their tables.
LEMMA OutboxType ==
    ASSUME TypeOK, NEW claim \in ClaimType, NEW results
    PROVE  /\ NewEvents(claim, results) \subseteq EventType
           /\ NewJobs(claim, results) \subseteq JobType
<1>1. states[claim.monitor].active \in Tokens \cup {None}
  BY DEF TypeOK, ClaimType
<1>2. ASSUME NEW type PROVE IncidentOf(type, claim, results) \in Tokens \cup {None}
  BY <1>1 DEF IncidentOf, ClaimType
<1>3. Types(claim, results) \subseteq EventTypes
  BY DEF Types, Emitted
<1>4. NewEvents(claim, results) \subseteq EventType
  BY <1>2, <1>3 DEF NewEvents, EventType, ClaimType
<1>5. NewJobs(claim, results) \subseteq JobType
  BY <1>4 DEF NewJobs, JobType
<1> QED
  BY <1>4, <1>5

\* The columns that release a monitor keep the row well-formed.
LEMMA ReleasedType ==
    ASSUME NEW row \in RowType, NEW next \in Nat
    PROVE  /\ Released(row, next) \in RowType
           /\ Released(row, next).config = row.config
           /\ Released(row, next).phase = row.phase
           /\ Released(row, next).revision = row.revision
  BY DEF Released, RowType

\* The row of a monitor that is not there, or no longer, is well typed.
LEMMA NoRowType == NoRow \in RowType /\ [NoRow EXCEPT !.phase = "DELETED"] \in RowType
<1>1. 0 \in 0..MaxRevision
  BY BoundsAssumption
<1>2. NoRow \in RowType
  BY <1>1 DEF NoRow, RowType
<1> QED
  BY <1>2 DEF RowType

\* A client that has loaded nothing holds a well typed draft.
LEMMA NoDraftType == NoDraft \in DraftType
  BY BoundsAssumption DEF NoDraft, DraftType

\* A worker that drops or releases a claim holds claims.
LEMMA HeldType ==
    ASSUME TypeOK, NEW w \in Workers, NEW claim \in held[w], Drop(w, claim) \/ Release(w, claim)
    PROVE  held' \in [Workers -> SUBSET ClaimType]
<1>1. claim \in ClaimType
  BY DEF TypeOK
<1>2. [claim EXCEPT !.pc = "RELEASE"] \in ClaimType
  BY <1>1 DEF ClaimType
<1> QED
  BY <1>1, <1>2 DEF TypeOK, Drop, Release

\* An edited row is well typed while the revision bound has room (UPDATE monitors of every edit).
LEMMA EditedType ==
    ASSUME TypeOK, NEW row \in RowType, row.revision < MaxRevision
    PROVE  /\ Edited(row) \in RowType
           /\ Edited(row).config = row.config /\ Edited(row).phase = row.phase
<1>1. now \in Nat /\ row.revision + 1 \in 0..MaxRevision
  BY BoundsAssumption DEF TypeOK, RowType
<1>2. Released(row, now) \in RowType
  BY <1>1, ReleasedType
<1> QED
  BY <1>1, <1>2, ReleasedType DEF Edited, RowType

\* Ending runs keeps the table of runs well typed.
LEMMA RunsEndedType ==
    ASSUME TypeOK, NEW ts, NEW status \in {"ERROR", "ABANDONED"}
    PROVE  RunsEnded(ts, status) \in [Tokens -> RunType]
  BY DEF RunsEnded, TypeOK, RunType

\* Every table and process holds what its type says, in every reachable state.
THEOREM TypeCorrect == Spec => []TypeOK
<1>1. Init => TypeOK
  <2> SUFFICES ASSUME Init PROVE TypeOK
    OBVIOUS
  <2>1. now \in 1..MaxTime /\ 0 \in 0..MaxRevision
    BY BoundsAssumption DEF Init
  <2>2. /\ monitors \in [Monitors -> RowType]
        /\ \A m \in Monitors : ~Present(m)
    BY NoRowType DEF Init, NoRow, Present
  <2>3. states \in [Monitors -> [state : StateType, active : Tokens \cup {None}]]
    BY InitialStateType DEF Init
  <2>4. runs \in [Tokens -> RunType]
    BY <2>1 DEF Init, RunType
  <2>5. drafts \in [Clients -> DraftType]
    BY NoDraftType DEF Init
  <2> QED
    BY <2>1, <2>2, <2>3, <2>4, <2>5 DEF Init, TypeOK
<1>2. TypeOK /\ [Next]_vars => TypeOK'
  <2> SUFFICES ASSUME TypeOK, [Next]_vars PROVE TypeOK'
    OBVIOUS
  <2> USE DEF Present
  <2>1. ASSUME NEW m \in Monitors, NEW c \in Configs, NEW delay \in 0..(c.interval - 1),
               CreateMonitor(m, c, delay)
        PROVE  TypeOK'
    <3>1. c.interval \in Nat /\ delay \in Nat /\ 1 \in 0..MaxRevision /\ now + delay \in Nat
      BY ConfigsAssumption, BoundsAssumption DEF TypeOK
    <3> DEFINE row == [phase |-> "PRESENT", enabled |-> TRUE, config |-> c, revision |-> 1,
                       history |-> 1, next |-> now + delay, token |-> None, lease |-> 0]
    <3>2. row \in RowType /\ row.config \in Configs
      BY <3>1 DEF RowType
    <3>3. monitors' = [monitors EXCEPT ![m] = row]
      BY <2>1 DEF CreateMonitor
    <3> HIDE DEF row
    <3>4. /\ monitors' \in [Monitors -> RowType]
          /\ \A n \in Monitors : Present(n)' => monitors'[n].config \in Configs
      BY <3>2, <3>3 DEF TypeOK
    <3>5. states' \in [Monitors -> [state : StateType, active : Tokens \cup {None}]]
      BY <2>1, InitialStateType DEF CreateMonitor, TypeOK
    <3> QED
      BY <2>1, <3>4, <3>5 DEF CreateMonitor, TypeOK
  <2>2. ASSUME NEW w \in Workers, NEW at \in 1..now, NEW S \in SUBSET Monitors,
               NEW token \in [S -> Unissued], NEW reached \in BOOLEAN,
               ClaimDue(w, at, S, token, reached)
        PROVE  TypeOK'
    <3>1. at \in Nat /\ \A m \in S : token[m] \in Tokens
      BY DEF TypeOK, Unissued
    <3>2. \A m \in S : /\ monitors[m].config \in Configs
                       /\ LeaseEnd(monitors[m].config, at) \in Nat
      BY <2>2, <3>1, LeaseEndType DEF ClaimDue, Due, TypeOK
    <3>3. /\ monitors' \in [Monitors -> RowType]
          /\ \A n \in Monitors : Present(n)' => monitors'[n].config \in Configs
      <4> DEFINE row(m) == [monitors[m] EXCEPT !.token = token[m],
                                               !.lease = LeaseEnd(monitors[m].config, at)]
      <4>1. \A m \in S : row(m) \in RowType /\ row(m).config = monitors[m].config
        <5> TAKE m \in S
        <5>1. monitors[m] \in RowType /\ token[m] \in Tokens
          BY <3>1 DEF TypeOK
        <5>2. LeaseEnd(monitors[m].config, at) \in Nat
          BY <3>2
        <5> QED
          BY <5>1, <5>2 DEF RowType
      <4>2. monitors' = [m \in Monitors |-> IF m \in S THEN row(m) ELSE monitors[m]]
        BY <2>2 DEF ClaimDue
      <4> HIDE DEF row
      <4> QED
        BY <3>2, <4>1, <4>2 DEF TypeOK
    <3>4. runs' \in [Tokens -> RunType]
      <4> DEFINE ended == RunsEnded({monitors[m].token : m \in S}, "ABANDONED")
      <4>1. ended \in [Tokens -> RunType]
        BY RunsEndedType
      <4>2. ASSUME NEW t \in Tokens, \E m \in S : token[m] = t
            PROVE  (CHOOSE x \in S : token[x] = t) \in S
        BY <4>2
      <4>3. \A m \in S : [status |-> "RUNNING", monitor |-> m, revision |-> monitors[m].revision]
                            \in RunType
        BY DEF TypeOK, RowType, RunType
      <4> HIDE DEF ended
      <4>4. runs' = [t \in Tokens |->
               IF \E m \in S : token[m] = t
               THEN [status |-> "RUNNING", monitor |-> CHOOSE x \in S : token[x] = t,
                     revision |-> monitors[CHOOSE x \in S : token[x] = t].revision]
               ELSE ended[t]]
        BY <2>2 DEF ClaimDue, ended
      <4> QED
        BY <4>1, <4>2, <4>3, <4>4
    <3>5. \A m \in S : Claim(m, token[m]) \in ClaimType
      BY <3>1, <3>2 DEF Claim, ClaimType, TypeOK, RowType
    <3>6. held' \in [Workers -> SUBSET ClaimType]
      <4> DEFINE new == {Claim(m, token[m]) : m \in S}
      <4>1. new \in SUBSET ClaimType
        BY <3>5
      <4>2. held' = [held EXCEPT ![w] = IF reached THEN @ \cup new ELSE @]
        BY <2>2 DEF ClaimDue
      <4> HIDE DEF new
      <4> QED
        BY <4>1, <4>2 DEF TypeOK
    <3> QED
      BY <2>2, <3>3, <3>4, <3>6 DEF ClaimDue, TypeOK
  <2>3. ASSUME NEW w \in Workers, NEW claim \in held[w],
               NEW results \in [claim.config.resolvers -> Answers], NEW answered \in BOOLEAN,
               Commit(w, claim, results, answered)
        PROVE  TypeOK'
    <3> DEFINE m == claim.monitor
    <3>1. claim \in ClaimType /\ m \in Monitors /\ claim.token \in Tokens
          /\ claim.config \in Configs
      BY DEF TypeOK, ClaimType
    <3>2. NextSlot(claim.scheduledAt, now, claim.config.interval) \in Nat
      BY <3>1, NextSlotIsTheFirst, ConfigsAssumption DEF TypeOK, ClaimType
    <3>3. /\ monitors' \in [Monitors -> RowType]
          /\ \A n \in Monitors : Present(n)' => monitors'[n].config \in Configs
      BY <2>3, <3>1, <3>2, ReleasedType DEF Commit, TypeOK
    <3>4. Outcome(claim, results) \in StateType
      BY <3>1, EvaluateType DEF Outcome, TypeOK
    <3>5. ActiveAfter(claim, results) \in Tokens \cup {None}
      BY <3>1 DEF ActiveAfter, TypeOK
    <3>6. states' \in [Monitors -> [state : StateType, active : Tokens \cup {None}]]
      BY <2>3, <3>1, <3>4, <3>5 DEF Commit, TypeOK
    <3>7. runs' \in [Tokens -> RunType]
      BY <2>3, <3>1 DEF Commit, TypeOK, RunType
    <3>8. events' \subseteq EventType /\ jobs' \subseteq JobType
      BY <2>3, <3>1, OutboxType DEF Commit, TypeOK
    <3>9. incidents' \in [Tokens -> {"NONE", "OPEN", "ACKNOWLEDGED", "RESOLVED", "CLOSED"}]
      BY <2>3 DEF Commit, TypeOK
    <3>10. held' \in [Workers -> SUBSET ClaimType]
      <4>1. Drop(w, claim) \/ Release(w, claim)
        BY <2>3 DEF Commit
      <4> QED
        BY <4>1, HeldType
    <3> QED
      BY <2>3, <3>3, <3>6, <3>7, <3>8, <3>9, <3>10 DEF Commit, TypeOK
  <2>4. ASSUME NEW w \in Workers, NEW claim \in held[w],
               Discard(w, claim) \/ Interrupt(w, claim) \/ ReleaseError(w, claim)
        PROVE  TypeOK'
    <3>1. held' \in [Workers -> SUBSET ClaimType]
      BY <2>4, HeldType DEF Discard, Interrupt, ReleaseError
    <3> QED
      BY <2>4, <3>1 DEF Discard, Interrupt, ReleaseError, TypeOK
  <2>5. ASSUME NEW w \in Workers, NEW claim \in held[w], Fail(w, claim)
        PROVE  TypeOK'
    <3>1. claim \in ClaimType /\ claim.monitor \in Monitors /\ now + RetryDelay \in Nat
      BY DelaysAssumption DEF TypeOK, ClaimType
    <3>2. /\ monitors' \in [Monitors -> RowType]
          /\ \A n \in Monitors : Present(n)' => monitors'[n].config \in Configs
      BY <2>5, <3>1, ReleasedType DEF Fail, TypeOK
    <3>3. runs' \in [Tokens -> RunType]
      BY <2>5, RunsEndedType DEF Fail, TypeOK
    <3> QED
      BY <2>5, <3>2, <3>3 DEF Fail, Drop, TypeOK
  <2>6. ASSUME NEW m \in Monitors, NEW enabled \in BOOLEAN, SetEnabled(m, enabled)
        PROVE  TypeOK'
    <3>1. monitors[m] \in RowType /\ Edited(monitors[m]) \in RowType
          /\ Edited(monitors[m]).config = monitors[m].config
      BY <2>6, EditedType DEF SetEnabled, MayEdit, TypeOK
    <3>2. /\ monitors' \in [Monitors -> RowType]
          /\ \A n \in Monitors : Present(n)' => monitors'[n].config \in Configs
      BY <2>6, <3>1 DEF SetEnabled, MayEdit, TypeOK, RowType
    <3>3. runs' \in [Tokens -> RunType]
      BY <2>6, RunsEndedType DEF SetEnabled, AbandonRun
    <3>4. states' \in [Monitors -> [state : StateType, active : Tokens \cup {None}]]
      BY <2>6, ResetType DEF SetEnabled, TypeOK
    <3> QED
      BY <2>6, <3>2, <3>3, <3>4 DEF SetEnabled, TypeOK
  <2>7. ASSUME NEW m \in Monitors, NEW c \in Configs, UpdateTiming(m, c)
        PROVE  TypeOK'
    <3>1. monitors[m] \in RowType /\ Edited(monitors[m]) \in RowType
          /\ Edited(monitors[m]).config = monitors[m].config
      BY <2>7, EditedType DEF UpdateTiming, MayEdit, TypeOK
    <3>2. /\ monitors' \in [Monitors -> RowType]
          /\ \A n \in Monitors : Present(n)' => monitors'[n].config \in Configs
      BY <2>7, <3>1 DEF UpdateTiming, MayEdit, TypeOK, RowType
    <3>3. runs' \in [Tokens -> RunType]
      BY <2>7, RunsEndedType DEF UpdateTiming, AbandonRun
    <3>4. states' \in [Monitors -> [state : StateType, active : Tokens \cup {None}]]
      BY <2>7, ResetType DEF UpdateTiming, TypeOK
    <3> QED
      BY <2>7, <3>2, <3>3, <3>4 DEF UpdateTiming, TypeOK
  <2>8. ASSUME NEW m \in Monitors, CheckNow(m)
        PROVE  TypeOK'
    BY <2>8 DEF CheckNow, TypeOK, RowType
  <2>9. ASSUME NEW cl \in Clients, NEW m \in Monitors, Inspect(cl, m)
        PROVE  TypeOK'
    BY <2>9 DEF Inspect, TypeOK, RowType, DraftType
  <2>10. ASSUME NEW cl \in Clients, NEW c \in Configs, UpdateMonitor(cl, c)
         PROVE  TypeOK'
    <3> DEFINE m == drafts[cl].monitor
               active == states[m].active
    <3>1. m \in Monitors /\ monitors[m].phase = "PRESENT" /\ monitors[m].revision < MaxRevision
          /\ monitors[m].revision + 1 \in 0..MaxRevision /\ monitors[m] \in RowType
      BY <2>10, BoundsAssumption DEF UpdateMonitor, DraftIsCurrent, MayEdit, TypeOK, DraftType, RowType
    <3>2. Edited(monitors[m]) \in RowType
      BY <3>1, EditedType
    <3> DEFINE row == [Edited(monitors[m]) EXCEPT !.config = c,
                   !.history = IF QueryIdentity(c) # QueryIdentity(monitors[m].config)
                               THEN monitors[m].revision + 1 ELSE monitors[m].history]
    <3>11. row \in RowType /\ row.config \in Configs
      BY <3>1, <3>2 DEF RowType
    <3>12. monitors' = [monitors EXCEPT ![m] = row]
      BY <2>10 DEF UpdateMonitor
    <3>3. /\ monitors' \in [Monitors -> RowType]
          /\ \A n \in Monitors : Present(n)' => monitors'[n].config \in Configs
      <4> HIDE DEF row
      <4> QED
        BY <3>1, <3>11, <3>12 DEF TypeOK
    <3>4. runs' \in [Tokens -> RunType]
      BY <2>10, RunsEndedType DEF UpdateMonitor, AbandonRun
    <3>5. active \in Tokens \cup {None} /\ states[m].state \in StateType
      BY <3>1 DEF TypeOK
    <3>6. states' \in [Monitors -> [state : StateType, active : Tokens \cup {None}]]
      <4> DEFINE changed == QueryIdentity(c) # QueryIdentity(monitors[m].config)
                 after == CASE changed -> Fresh
                            [] ~changed /\ Timing(c) # Timing(monitors[m].config) ->
                                  [states[m] EXCEPT !.state = ResetStreaks(@)]
                            [] OTHER -> states[m]
      <4>1. states[m] \in [state : StateType, active : Tokens \cup {None}]
        BY <3>1 DEF TypeOK
      <4>2. [states[m] EXCEPT !.state = ResetStreaks(@)]
               \in [state : StateType, active : Tokens \cup {None}]
        BY <4>1, ResetType
      <4>3. after \in [state : StateType, active : Tokens \cup {None}]
        BY <4>1, <4>2, InitialStateType
      <4>4. states' = [states EXCEPT ![m] = after]
        BY <2>10 DEF UpdateMonitor
      <4> HIDE DEF after
      <4> QED
        BY <4>3, <4>4 DEF TypeOK
    <3>7. incidents' \in [Tokens -> {"NONE", "OPEN", "ACKNOWLEDGED", "RESOLVED", "CLOSED"}]
      BY <2>10 DEF UpdateMonitor, Closed, TypeOK
    <3>8. jobs' \subseteq JobType
      BY <2>10 DEF UpdateMonitor, Withdrawn, TypeOK, JobType
    <3>9. events' \subseteq EventType
      BY <2>10, <3>1, <3>5 DEF UpdateMonitor, TypeOK, EventType
    <3>10. drafts' \in [Clients -> DraftType]
      BY <2>10, NoDraftType DEF UpdateMonitor, TypeOK
    <3> QED
      BY <2>10, <3>3, <3>4, <3>6, <3>7, <3>8, <3>9, <3>10 DEF UpdateMonitor, TypeOK
  <2>11. ASSUME NEW cl \in Clients, DeleteMonitor(cl)
         PROVE  TypeOK'
    <3> DEFINE m == drafts[cl].monitor
    <3>1. /\ monitors' \in [Monitors -> RowType]
          /\ \A n \in Monitors : Present(n)' => monitors'[n].config \in Configs
      <4> DEFINE row == [NoRow EXCEPT !.phase = "DELETED"]
      <4>1. row \in RowType /\ row.phase = "DELETED"
        BY NoRowType DEF NoRow
      <4>2. monitors' = [monitors EXCEPT ![m] = row]
        BY <2>11 DEF DeleteMonitor
      <4> HIDE DEF row
      <4> QED
        BY <4>1, <4>2 DEF TypeOK
    <3>2. runs' \in [Tokens -> RunType]
      BY <2>11 DEF DeleteMonitor, TypeOK, RunType
    <3>3. states' \in [Monitors -> [state : StateType, active : Tokens \cup {None}]]
      BY <2>11, InitialStateType DEF DeleteMonitor, TypeOK
    <3>4. incidents' \in [Tokens -> {"NONE", "OPEN", "ACKNOWLEDGED", "RESOLVED", "CLOSED"}]
      BY <2>11 DEF DeleteMonitor, TypeOK
    <3>5. events' \subseteq EventType /\ jobs' \subseteq JobType
      BY <2>11 DEF DeleteMonitor, JobsWithout, TypeOK
    <3>6. drafts' \in [Clients -> DraftType]
      BY <2>11, NoDraftType DEF DeleteMonitor, TypeOK
    <3> QED
      BY <2>11, <3>1, <3>2, <3>3, <3>4, <3>5, <3>6 DEF DeleteMonitor, TypeOK
  <2>12. ASSUME NEW t \in Tokens, Acknowledge(t)
         PROVE  TypeOK'
    BY <2>12 DEF Acknowledge, TypeOK
  <2>13. ASSUME NEW j \in jobs, RouteJob(j)
         PROVE  TypeOK'
    BY <2>13 DEF RouteJob, TypeOK, JobType
  <2>14. ASSUME Tick PROVE TypeOK'
    BY <2>14, BoundsAssumption DEF Tick, TypeOK
  <2>15. ASSUME NEW w \in Workers, Crash(w) PROVE TypeOK'
    BY <2>15 DEF Crash, TypeOK
  <2>16. ASSUME UNCHANGED vars PROVE TypeOK'
    BY <2>16 DEF vars, TypeOK
  <2> QED
    BY <2>1, <2>2, <2>3, <2>4, <2>5, <2>6, <2>7, <2>8, <2>9, <2>10, <2>11, <2>12, <2>13,
       <2>14, <2>15, <2>16 DEF Next, Claiming, Working, Operating, Editing, FreshTokens
<1> QED
  BY <1>1, <1>2, PTL DEF Spec

(******************************** leases ***********************************)

\* What has not happened yet has left no trace: a token that was never issued
\* belongs to no monitor, a monitor that is not there has neither lease nor state.
Blank ==
    /\ \A t \in Tokens : runs[t].status = "UNISSUED" => runs[t].monitor = None
    /\ \A m \in Monitors : monitors[m].phase # "PRESENT" =>
           monitors[m].token = None /\ states[m] = Fresh

LeaseInv == TypeOK /\ Blank /\ RunningIffLeased

\* Taking the lease of m away and ending its run, in whatever other way the rows
\* change, keeps every run with its lease.
LEMMA LeaseTaken ==
    ASSUME LeaseInv, NEW m \in Monitors,
           NEW status \in {"COMPLETED", "ERROR", "ABANDONED"},
           runs' = RunsEnded({monitors[m].token}, status),
           monitors[m].phase = "PRESENT", monitors'[m].phase = "PRESENT",
           monitors'[m].token = None,
           \A n \in Monitors \ {m} : monitors'[n] = monitors[n] /\ states'[n] = states[n]
    PROVE  RunningIffLeased' /\ Blank'
<1> USE DEF LeaseInv
<1>1. \A t \in Tokens : /\ runs'[t].monitor = runs[t].monitor
                        /\ Running(t)' <=> Running(t) /\ t # monitors[m].token
                        /\ runs'[t].status = "UNISSUED" => runs[t].status = "UNISSUED"
  BY DEF TypeOK, RunsEnded, Running, RunType
<1>2. ASSUME NEW n \in Monitors, monitors'[n].token # None
      PROVE  /\ runs'[monitors'[n].token].status = "RUNNING"
             /\ runs'[monitors'[n].token].monitor = n
  <2>1. n # m /\ monitors'[n] = monitors[n]
    BY <1>2
  <2>2. Running(monitors[n].token) /\ runs[monitors[n].token].monitor = n
    BY <1>2, <2>1 DEF RunningIffLeased
  <2>3. monitors[n].token \in Tokens
    BY <1>2, <2>1 DEF TypeOK, RowType
  <2>4. monitors[n].token # monitors[m].token
    BY <1>2, <2>1, <2>2 DEF RunningIffLeased
  <2> QED
    BY <1>1, <2>1, <2>2, <2>3, <2>4 DEF Running
<1>3. ASSUME NEW t \in Tokens, Running(t)'
      PROVE  runs'[t].monitor # None /\ monitors'[runs'[t].monitor].token = t
  <2>1. Running(t) /\ t # monitors[m].token
    BY <1>1, <1>3
  <2>2. runs[t].monitor # None /\ monitors[runs[t].monitor].token = t
    BY <2>1 DEF RunningIffLeased
  <2>3. runs[t].monitor \in Monitors \ {m}
    BY <2>1, <2>2 DEF TypeOK, RunType
  <2> QED
    BY <1>1, <2>2, <2>3
<1>4. RunningIffLeased'
  BY <1>2, <1>3 DEF RunningIffLeased, Running
<1>5. \A t \in Tokens : runs'[t].status = "UNISSUED" => runs'[t].monitor = None
  BY <1>1 DEF Blank
<1>6. Blank'
  BY <1>5 DEF Blank
<1> QED
  BY <1>4, <1>6

\* A batch of claims: the expired leases and their runs are replaced together.
LEMMA LeaseClaimed ==
    ASSUME LeaseInv, NEW w \in Workers, NEW at \in 1..now, NEW S \in SUBSET Monitors,
           NEW token \in FreshTokens(S), NEW reached \in BOOLEAN,
           ClaimDue(w, at, S, token, reached)
    PROVE  RunningIffLeased' /\ Blank'
<1> USE DEF LeaseInv
<1> DEFINE abandoned == {monitors[m].token : m \in S}
<1>1. /\ \A m \in S : token[m] \in Tokens /\ token[m] # None
                      /\ runs[token[m]].status = "UNISSUED"
      /\ \A m, n \in S : token[m] = token[n] => m = n
  BY NoneAssumption DEF FreshTokens, Unissued
<1>2. \A n \in Monitors : /\ n \in S => monitors'[n].token = token[n]
                          /\ n \notin S => monitors'[n] = monitors[n]
                          /\ monitors'[n].phase = monitors[n].phase
                          /\ n \in S => monitors[n].phase = "PRESENT"
  BY DEF ClaimDue, Due, Present, TypeOK, RowType
<1>3. ASSUME NEW m \in S
      PROVE  /\ runs'[token[m]].status = "RUNNING" /\ runs'[token[m]].monitor = m
  <2>1. \E x \in S : token[x] = token[m]
    OBVIOUS
  <2>2. (CHOOSE x \in S : token[x] = token[m]) = m
    BY <1>1
  <2>3. runs'[token[m]] = [status |-> "RUNNING", monitor |-> m, revision |-> monitors[m].revision]
    BY <1>1, <2>1, <2>2 DEF ClaimDue
  <2> QED
    BY <2>3
<1>4. ASSUME NEW t \in Tokens, \A m \in S : token[m] # t
      PROVE  /\ runs'[t].monitor = runs[t].monitor
             /\ Running(t)' <=> Running(t) /\ t \notin abandoned
             /\ runs'[t].status = "UNISSUED" => runs[t].status = "UNISSUED"
  <2>1. runs'[t] = RunsEnded(abandoned, "ABANDONED")[t]
    BY <1>4 DEF ClaimDue
  <2> HIDE DEF abandoned
  <2> QED
    BY <2>1 DEF RunsEnded, Running, TypeOK, RunType
<1>5. ASSUME NEW n \in Monitors, monitors'[n].token # None
      PROVE  /\ runs'[monitors'[n].token].status = "RUNNING"
             /\ runs'[monitors'[n].token].monitor = n
  <2>1. CASE n \in S
    BY <2>1, <1>1, <1>2, <1>3 DEF Running
  <2>2. CASE n \notin S
    <3>1. Running(monitors[n].token) /\ runs[monitors[n].token].monitor = n
          /\ monitors[n].token \in Tokens
      BY <1>2, <1>5, <2>2 DEF RunningIffLeased, TypeOK, RowType
    <3>2. \A m \in S : token[m] # monitors[n].token
      BY <1>1, <3>1 DEF Running
    <3>3. monitors[n].token \notin abandoned
      BY <3>1, <2>2 DEF RunningIffLeased, Running
    <3>4. ASSUME NEW t \in Tokens, t = monitors[n].token
          PROVE  runs'[t].status = "RUNNING" /\ runs'[t].monitor = n
      <4> HIDE DEF abandoned
      <4>1. Running(t)' /\ runs'[t].monitor = runs[t].monitor
        BY <1>4, <3>1, <3>2, <3>3, <3>4
      <4> QED
        BY <3>1, <3>4, <4>1 DEF Running
    <3> QED
      BY <1>2, <2>2, <3>1, <3>4
  <2> QED
    BY <2>1, <2>2
<1>6. ASSUME NEW t \in Tokens, Running(t)'
      PROVE  runs'[t].monitor # None /\ monitors'[runs'[t].monitor].token = t
  <2>1. CASE \E m \in S : token[m] = t
    BY <2>1, <1>2, <1>3, NoneAssumption
  <2>2. CASE \A m \in S : token[m] # t
    <3>1. Running(t) /\ t \notin abandoned /\ runs'[t].monitor = runs[t].monitor
      <4> HIDE DEF abandoned
      <4> QED
        BY <1>4, <1>6, <2>2
    <3>2. runs[t].monitor \in Monitors /\ monitors[runs[t].monitor].token = t
      BY <3>1 DEF RunningIffLeased, TypeOK, RunType
    <3>3. runs[t].monitor \notin S
      BY <3>1, <3>2
    <3> QED
      BY <1>2, <3>1, <3>2, <3>3, NoneAssumption
  <2> QED
    BY <2>1, <2>2
<1>7. RunningIffLeased'
  BY <1>5, <1>6 DEF RunningIffLeased, Running
<1>8. ASSUME NEW t \in Tokens, runs'[t].status = "UNISSUED" PROVE runs'[t].monitor = None
  BY <1>3, <1>4, <1>8 DEF Blank
<1>9. ASSUME NEW m \in Monitors, monitors'[m].phase # "PRESENT"
      PROVE  monitors'[m].token = None /\ states'[m] = Fresh
  BY <1>2, <1>9 DEF Blank, ClaimDue
<1>10. Blank'
  BY <1>8, <1>9 DEF Blank
<1> QED
  BY <1>7, <1>10

\* A transaction that touches neither leases, runs nor the state of absent monitors.
LEMMA LeaseUntouched ==
    ASSUME LeaseInv, runs' = runs,
           \A m \in Monitors : monitors'[m].token = monitors[m].token,
           \A m \in Monitors : monitors'[m].phase # "PRESENT" =>
               monitors[m].phase # "PRESENT" /\ states'[m] = states[m]
    PROVE  RunningIffLeased' /\ Blank'
<1>1. \A t \in Tokens : Running(t)' <=> Running(t)
  BY DEF Running
<1>2. RunningIffLeased'
  <2>1. \A t \in Tokens : Running(t) => runs[t].monitor \in Monitors
    BY DEF LeaseInv, RunningIffLeased, TypeOK, RunType
  <2> QED
    BY <1>1, <2>1 DEF LeaseInv, RunningIffLeased, Running
<1>3. Blank'
  BY DEF LeaseInv, Blank
<1> QED
  BY <1>2, <1>3

\* Only whole transactions move leases and runs, and they move both.
LEMMA LeaseInvStep == LeaseInv /\ TypeOK' /\ [Next]_vars => LeaseInv'
<1> SUFFICES ASSUME LeaseInv, TypeOK', [Next]_vars PROVE RunningIffLeased' /\ Blank'
  BY DEF LeaseInv
<1> USE DEF Present
<1>1. ASSUME NEW m \in Monitors, NEW c \in Configs, NEW delay \in 0..(c.interval - 1),
             CreateMonitor(m, c, delay)
      PROVE  RunningIffLeased' /\ Blank'
  <2>1. /\ monitors[m].token = None
        /\ \A n \in Monitors : monitors'[n].token = monitors[n].token
    BY <1>1 DEF CreateMonitor, LeaseInv, Blank, TypeOK, RowType
  <2>2. \A n \in Monitors : monitors'[n].phase # "PRESENT" =>
               monitors[n].phase # "PRESENT" /\ states'[n] = states[n]
    BY <1>1 DEF CreateMonitor, LeaseInv, TypeOK, RowType
  <2>3. runs' = runs
    BY <1>1 DEF CreateMonitor
  <2> QED
    BY <2>1, <2>2, <2>3, LeaseUntouched
<1>2. ASSUME NEW w \in Workers, NEW at \in 1..now, NEW S \in SUBSET Monitors,
             NEW token \in FreshTokens(S), NEW reached \in BOOLEAN,
             ClaimDue(w, at, S, token, reached)
      PROVE  RunningIffLeased' /\ Blank'
  BY <1>2, LeaseClaimed
<1>3. ASSUME NEW w \in Workers, NEW claim \in held[w],
             NEW results \in [claim.config.resolvers -> Answers], NEW answered \in BOOLEAN,
             Commit(w, claim, results, answered)
      PROVE  RunningIffLeased' /\ Blank'
  <2> DEFINE m == claim.monitor
  <2>1. claim \in ClaimType /\ m \in Monitors /\ claim.token \in Tokens
    BY DEF LeaseInv, TypeOK, ClaimType
  <2>2. monitors[m].token = claim.token /\ monitors[m].phase = "PRESENT" /\ Running(claim.token)
    BY <1>3, <2>1, NoneAssumption DEF Commit, Current, LeaseInv, RunningIffLeased
  <2>3. runs' = RunsEnded({monitors[m].token}, "COMPLETED")
    BY <1>3, <2>1, <2>2 DEF Commit, RunsEnded, LeaseInv, TypeOK
  <2>4. /\ monitors'[m].token = None /\ monitors'[m].phase = "PRESENT"
        /\ \A n \in Monitors \ {m} : monitors'[n] = monitors[n] /\ states'[n] = states[n]
    BY <1>3, <2>1, <2>2 DEF Commit, Released, LeaseInv, TypeOK, RowType
  <2> QED
    BY <2>1, <2>2, <2>3, <2>4, LeaseTaken
<1>4. ASSUME NEW w \in Workers, NEW claim \in held[w],
             Discard(w, claim) \/ Interrupt(w, claim) \/ ReleaseError(w, claim) \/ Crash(w)
      PROVE  RunningIffLeased' /\ Blank'
  BY <1>4, LeaseUntouched DEF Discard, Interrupt, ReleaseError, Crash
<1>5. ASSUME NEW w \in Workers, NEW claim \in held[w], Fail(w, claim)
      PROVE  RunningIffLeased' /\ Blank'
  <2> DEFINE m == claim.monitor
             owned == monitors[m].phase = "PRESENT" /\ monitors[m].token = claim.token
  <2>1. claim \in ClaimType /\ m \in Monitors /\ claim.token \in Tokens
    BY DEF LeaseInv, TypeOK, ClaimType
  <2>2. CASE owned
    <3>1. runs' = RunsEnded({monitors[m].token}, "ERROR")
      BY <1>5, <2>2 DEF Fail
    <3>2. /\ monitors'[m].token = None /\ monitors'[m].phase = "PRESENT"
          /\ \A n \in Monitors \ {m} : monitors'[n] = monitors[n] /\ states'[n] = states[n]
      BY <1>5, <2>1, <2>2 DEF Fail, Released, LeaseInv, TypeOK, RowType
    <3> QED
      BY <2>1, <2>2, <3>1, <3>2, LeaseTaken
  <2>3. CASE ~owned
    BY <1>5, <2>3, LeaseUntouched DEF Fail
  <2> QED
    BY <2>2, <2>3
<1>6. ASSUME NEW m \in Monitors, NEW enabled \in BOOLEAN, SetEnabled(m, enabled)
      PROVE  RunningIffLeased' /\ Blank'
  <2>1. runs' = RunsEnded({monitors[m].token}, "ABANDONED") /\ monitors[m].phase = "PRESENT"
    BY <1>6 DEF SetEnabled, MayEdit, AbandonRun
  <2>2. /\ monitors'[m].token = None /\ monitors'[m].phase = "PRESENT"
        /\ \A n \in Monitors \ {m} : monitors'[n] = monitors[n] /\ states'[n] = states[n]
    BY <1>6, <2>1 DEF SetEnabled, Edited, Released, LeaseInv, TypeOK, RowType
  <2> QED
    BY <2>1, <2>2, LeaseTaken
<1>7. ASSUME NEW m \in Monitors, NEW c \in Configs, UpdateTiming(m, c)
      PROVE  RunningIffLeased' /\ Blank'
  <2>1. runs' = RunsEnded({monitors[m].token}, "ABANDONED") /\ monitors[m].phase = "PRESENT"
    BY <1>7 DEF UpdateTiming, MayEdit, AbandonRun
  <2>2. /\ monitors'[m].token = None /\ monitors'[m].phase = "PRESENT"
        /\ \A n \in Monitors \ {m} : monitors'[n] = monitors[n] /\ states'[n] = states[n]
    BY <1>7, <2>1 DEF UpdateTiming, Edited, Released, LeaseInv, TypeOK, RowType
  <2> QED
    BY <2>1, <2>2, LeaseTaken
<1>8. ASSUME NEW m \in Monitors, CheckNow(m)
      PROVE  RunningIffLeased' /\ Blank'
  <2>1. \A n \in Monitors : monitors'[n].token = monitors[n].token
                            /\ monitors'[n].phase = monitors[n].phase
    BY <1>8 DEF CheckNow, LeaseInv, TypeOK, RowType
  <2> QED
    BY <1>8, <2>1, LeaseUntouched DEF CheckNow
<1>9. ASSUME NEW cl \in Clients, NEW c \in Configs, UpdateMonitor(cl, c)
      PROVE  RunningIffLeased' /\ Blank'
  <2> DEFINE m == drafts[cl].monitor
  <2>1. m \in Monitors /\ monitors[m].phase = "PRESENT"
    BY <1>9 DEF UpdateMonitor, DraftIsCurrent, LeaseInv, TypeOK, DraftType
  <2>2. runs' = RunsEnded({monitors[m].token}, "ABANDONED")
    BY <1>9 DEF UpdateMonitor, AbandonRun
  <2>3. /\ monitors'[m].token = None /\ monitors'[m].phase = "PRESENT"
        /\ \A n \in Monitors \ {m} : monitors'[n] = monitors[n]
    BY <1>9, <2>1 DEF UpdateMonitor, Edited, Released, LeaseInv, TypeOK, RowType
  <2>4. \A n \in Monitors \ {m} : states'[n] = states[n]
    BY <1>9 DEF UpdateMonitor, LeaseInv, TypeOK
  <2> QED
    BY <2>1, <2>2, <2>3, <2>4, LeaseTaken
<1>10. ASSUME NEW cl \in Clients, DeleteMonitor(cl)
       PROVE  RunningIffLeased' /\ Blank'
  <2> DEFINE m == drafts[cl].monitor
  <2>1. m \in Monitors
    BY <1>10 DEF DeleteMonitor, DraftIsCurrent, LeaseInv, TypeOK, DraftType
  <2>2. /\ monitors'[m].token = None /\ states'[m] = Fresh
        /\ \A n \in Monitors \ {m} : monitors'[n] = monitors[n] /\ states'[n] = states[n]
    BY <1>10, <2>1 DEF DeleteMonitor, NoRow, LeaseInv, TypeOK
  <2>3. \A t \in Tokens : /\ runs[t].monitor = m => runs'[t].status = "DELETED"
                          /\ runs[t].monitor # m => runs'[t] = runs[t]
                          /\ runs'[t].monitor = runs[t].monitor
    BY <1>10 DEF DeleteMonitor, OfMonitor, LeaseInv, TypeOK, RunType
  <2>4. ASSUME NEW n \in Monitors, monitors'[n].token # None
        PROVE  /\ runs'[monitors'[n].token].status = "RUNNING"
               /\ runs'[monitors'[n].token].monitor = n
    <3>1. n # m /\ monitors'[n] = monitors[n] /\ monitors[n].token \in Tokens
      BY <2>2, <2>4 DEF LeaseInv, TypeOK, RowType
    <3>2. runs[monitors[n].token].status = "RUNNING" /\ runs[monitors[n].token].monitor = n
      BY <2>4, <3>1 DEF LeaseInv, RunningIffLeased, Running
    <3> QED
      BY <2>3, <3>1, <3>2
  <2>5. ASSUME NEW t \in Tokens, Running(t)'
        PROVE  runs'[t].monitor # None /\ monitors'[runs'[t].monitor].token = t
    <3>1. runs[t].monitor # m /\ Running(t)
      BY <2>3, <2>5 DEF Running
    <3>2. runs[t].monitor \in Monitors /\ monitors[runs[t].monitor].token = t
      BY <3>1 DEF LeaseInv, RunningIffLeased, TypeOK, RunType
    <3> QED
      BY <2>2, <2>3, <3>1, <3>2, NoneAssumption
  <2>6. RunningIffLeased'
    BY <2>4, <2>5 DEF RunningIffLeased, Running
  <2>7. \A t \in Tokens : runs'[t].status = "UNISSUED" => runs'[t].monitor = None
    BY <2>3 DEF LeaseInv, Blank
  <2>8. Blank'
    BY <2>2, <2>7 DEF LeaseInv, Blank
  <2> QED
    BY <2>6, <2>8
<1>11. CASE \/ \E cl \in Clients, m \in Monitors : Inspect(cl, m)
            \/ \E t \in Tokens : Acknowledge(t)
            \/ \E j \in jobs : RouteJob(j)
            \/ \E w \in Workers : Crash(w)
            \/ Tick
            \/ UNCHANGED vars
  BY <1>11, LeaseUntouched DEF Inspect, Acknowledge, RouteJob, Crash, Tick, vars
<1> QED
  BY <1>1, <1>2, <1>3, <1>4, <1>5, <1>6, <1>7, <1>8, <1>9, <1>10, <1>11
     DEF Next, Claiming, Working, Operating, Editing

\* Every RUNNING run is the lease of its monitor and every lease is a RUNNING run:
\* no check runs beside another, and none is left RUNNING by a crash, an expired
\* lease, an edit, a pause or a deletion.
THEOREM LeasesAndRunsAgree == Spec => []RunningIffLeased
<1>1. Init => Blank /\ RunningIffLeased
  BY DEF Init, Blank, RunningIffLeased, Running, NoRow
<1>2. TypeOK /\ TypeOK' /\ (Blank /\ RunningIffLeased) /\ [Next]_vars
         => (Blank /\ RunningIffLeased)'
  BY LeaseInvStep DEF LeaseInv
<1> QED
  BY <1>1, <1>2, TypeCorrect, PTL DEF Spec

(******************************* incidents *********************************)

IncidentInv == LeaseInv /\ IncidentConsistent

\* A transaction that leaves the open incidents as they are.
LEMMA IncidentsUntouched ==
    ASSUME IncidentInv,
           \A t \in Tokens : Unresolved(t)' <=> Unresolved(t),
           \A t \in Tokens : runs[t].monitor # None => runs'[t].monitor = runs[t].monitor,
           \A m \in Monitors :
               /\ states'[m].active = states[m].active
               /\ states'[m].state.incidentOpen = states[m].state.incidentOpen
    PROVE  IncidentConsistent'
<1>1. ASSUME NEW m \in Monitors
      PROVE  /\ states'[m].state.incidentOpen <=> states'[m].active # None
             /\ states'[m].active # None =>
                   /\ incidents'[states'[m].active] \in {"OPEN", "ACKNOWLEDGED"}
                   /\ runs'[states'[m].active].monitor = m
  <2> DEFINE t == states[m].active
  <2>1. t \in Tokens \cup {None}
    BY DEF IncidentInv, LeaseInv, TypeOK
  <2>2. (states[m].state.incidentOpen <=> t # None)
        /\ (t # None => Unresolved(t) /\ runs[t].monitor = m)
    BY DEF IncidentInv, IncidentConsistent
  <2>3. m # None
    BY NoneAssumption
  <2> QED
    BY <2>1, <2>2, <2>3 DEF Unresolved
<1>2. ASSUME NEW t \in Tokens, Unresolved(t)'
      PROVE  runs'[t].monitor # None /\ states'[runs'[t].monitor].active = t
  <2>1. runs[t].monitor # None /\ states[runs[t].monitor].active = t
    BY <1>2 DEF IncidentInv, IncidentConsistent
  <2>2. runs[t].monitor \in Monitors
    BY <2>1 DEF IncidentInv, LeaseInv, TypeOK, RunType
  <2> QED
    BY <2>1, <2>2
<1> QED
  BY <1>1, <1>2 DEF IncidentConsistent, Unresolved

\* Resetting the streaks neither opens nor closes an incident (repository.ts:142-146).
LEMMA ResetKeepsIncident ==
    ASSUME NEW s \in StateType PROVE ResetStreaks(s).incidentOpen = s.incidentOpen
  BY DEF ResetStreaks, StateType

\* Ending a run leaves it with its monitor.
LEMMA RunsEndedMonitor ==
    ASSUME TypeOK, NEW ts, NEW status, NEW t \in Tokens
    PROVE  RunsEnded(ts, status)[t].monitor = runs[t].monitor
  BY DEF RunsEnded, TypeOK, RunType

\* What a check reports about the incident is what it did to the flag.
LEMMA IncidentEvents ==
    ASSUME NEW claim, NEW results
    PROVE  LET s == states[claim.monitor].state
               o == Outcome(claim, results)
           IN  /\ "INCIDENT_OPENED" \in Types(claim, results) <=> ~s.incidentOpen /\ o.incidentOpen
               /\ "INCIDENT_RESOLVED" \in Types(claim, results) <=> s.incidentOpen /\ ~o.incidentOpen
  BY DEF Types, Emitted, EventTypes

\* A commit opens, keeps or resolves the incident in all three places.
LEMMA CommitIncident ==
    ASSUME IncidentInv, NEW w \in Workers, NEW claim \in held[w],
           NEW results \in [claim.config.resolvers -> Answers], NEW answered \in BOOLEAN,
           Commit(w, claim, results, answered)
    PROVE  IncidentConsistent'
<1> DEFINE m == claim.monitor
           active == states[m].active
           opened == "INCIDENT_OPENED" \in Types(claim, results)
           resolved == "INCIDENT_RESOLVED" \in Types(claim, results)
<1>1. /\ claim.token \in Tokens /\ m \in Monitors /\ m # None /\ claim.token # None
      /\ active \in Tokens \cup {None}
  BY NoneAssumption DEF IncidentInv, LeaseInv, TypeOK, ClaimType
<1>2. runs[claim.token].monitor = m
  BY <1>1 DEF Commit, Current, IncidentInv, LeaseInv, RunningIffLeased
<1>3. \A t \in Tokens : runs'[t].monitor = runs[t].monitor
  BY DEF Commit, IncidentInv, LeaseInv, TypeOK, RunType
<1>4. /\ states'[m].active = ActiveAfter(claim, results)
      /\ states'[m].state = Outcome(claim, results)
      /\ \A n \in Monitors \ {m} : states'[n] = states[n]
  BY <1>1 DEF Commit, IncidentInv, LeaseInv, TypeOK
<1>5. /\ opened => active = None
      /\ resolved => active # None
  BY DEF Commit, Refused
<1>6. /\ states[m].state.incidentOpen <=> active # None
      /\ active # None => Unresolved(active) /\ runs[active].monitor = m
  BY <1>1 DEF IncidentInv, IncidentConsistent
<1>7. /\ states[m].state.incidentOpen \in BOOLEAN
      /\ Outcome(claim, results).incidentOpen \in BOOLEAN
  <2>1. claim.config \in Configs /\ states[m].state \in StateType /\ now \in Nat
    BY <1>1 DEF IncidentInv, LeaseInv, TypeOK, ClaimType
  <2>2. Outcome(claim, results) \in StateType
    BY <2>1, EvaluateType DEF Outcome
  <2> QED
    BY <2>1, <2>2 DEF StateType
<1>8. /\ opened <=> ~states[m].state.incidentOpen /\ Outcome(claim, results).incidentOpen
      /\ resolved <=> states[m].state.incidentOpen /\ ~Outcome(claim, results).incidentOpen
  BY IncidentEvents
<1>9. incidents' = [t \in Tokens |-> IF t = claim.token /\ opened THEN "OPEN"
                                     ELSE IF t = active /\ resolved THEN "RESOLVED"
                                     ELSE incidents[t]]
  BY DEF Commit
<1>10. ActiveAfter(claim, results) = IF opened THEN claim.token
                                     ELSE IF resolved THEN None ELSE active
  BY DEF ActiveAfter
<1> HIDE DEF m, active, opened, resolved
<1>11. ASSUME NEW n \in Monitors
       PROVE  /\ states'[n].state.incidentOpen <=> states'[n].active # None
              /\ states'[n].active # None =>
                    /\ incidents'[states'[n].active] \in {"OPEN", "ACKNOWLEDGED"}
                    /\ runs'[states'[n].active].monitor = n
  <2>1. CASE n = m
    <3>1. states'[m].state.incidentOpen <=> states'[m].active # None
      BY <1>1, <1>4, <1>5, <1>6, <1>7, <1>8, <1>10
    <3>2. CASE opened
      BY <2>1, <3>1, <3>2, <1>1, <1>2, <1>3, <1>4, <1>9, <1>10
    <3>3. CASE ~opened
      <4>1. states'[m].active # None => states'[m].active = active /\ ~resolved
        BY <3>3, <1>4, <1>10
      <4> QED
        BY <2>1, <3>1, <3>3, <4>1, <1>1, <1>3, <1>6, <1>9 DEF Unresolved
    <3> QED
      BY <3>2, <3>3
  <2>2. CASE n # m
    <3>1. states'[n] = states[n]
      BY <2>2, <1>4
    <3>2. /\ states[n].state.incidentOpen <=> states[n].active # None
          /\ states[n].active # None =>
                Unresolved(states[n].active) /\ runs[states[n].active].monitor = n
      BY DEF IncidentInv, IncidentConsistent
    <3>3. states[n].active \in Tokens \cup {None}
      BY DEF IncidentInv, LeaseInv, TypeOK
    <3>4. states[n].active # None => states[n].active # claim.token /\ states[n].active # active
      BY <1>2, <1>6, <2>2, <3>2
    <3> QED
      BY <1>3, <1>9, <3>1, <3>2, <3>3, <3>4 DEF Unresolved
  <2> QED
    BY <2>1, <2>2
<1>12. ASSUME NEW t \in Tokens, Unresolved(t)'
       PROVE  runs'[t].monitor # None /\ states'[runs'[t].monitor].active = t
  <2>1. CASE t = claim.token /\ opened
    BY <2>1, <1>1, <1>2, <1>3, <1>4, <1>10
  <2>2. CASE ~(t = claim.token /\ opened)
    <3>1. Unresolved(t) /\ ~(t = active /\ resolved)
      BY <2>2, <1>9, <1>12 DEF Unresolved
    <3>2. runs[t].monitor # None /\ states[runs[t].monitor].active = t
      BY <3>1 DEF IncidentInv, IncidentConsistent
    <3>3. runs[t].monitor \in Monitors
      BY <3>2 DEF IncidentInv, LeaseInv, TypeOK, RunType
    <3>4. CASE runs[t].monitor = m
      <4>1. active = t
        BY <3>2, <3>4 DEF active
      <4>2. ~opened /\ ~resolved
        BY <4>1, <3>1, <1>1, <1>5, NoneAssumption
      <4> QED
        BY <4>1, <4>2, <3>2, <3>4, <1>3, <1>4, <1>10
    <3>5. CASE runs[t].monitor # m
      BY <3>2, <3>3, <3>5, <1>3, <1>4
    <3> QED
      BY <3>4, <3>5
  <2> QED
    BY <2>1, <2>2
<1> QED
  BY <1>11, <1>12 DEF IncidentConsistent, Unresolved

\* Every step keeps the three records of an open incident in agreement.
LEMMA IncidentInvStep == IncidentInv /\ LeaseInv' /\ [Next]_vars => IncidentConsistent'
<1> SUFFICES ASSUME IncidentInv, LeaseInv', [Next]_vars PROVE IncidentConsistent'
  OBVIOUS
<1> USE DEF Present
<1>0. /\ TypeOK /\ Blank
      /\ \A m \in Monitors : states[m] \in [state : StateType, active : Tokens \cup {None}]
  BY DEF IncidentInv, LeaseInv, TypeOK
<1>1. ASSUME NEW m \in Monitors, NEW c \in Configs, NEW delay \in 0..(c.interval - 1),
             CreateMonitor(m, c, delay)
      PROVE  IncidentConsistent'
  <2>1. \A n \in Monitors : states'[n] = states[n]
    BY <1>0, <1>1 DEF CreateMonitor, Blank, TypeOK
  <2> QED
    BY <1>1, <2>1, IncidentsUntouched DEF CreateMonitor, Unresolved
<1>2. ASSUME NEW w \in Workers, NEW at \in 1..now, NEW S \in SUBSET Monitors,
             NEW token \in FreshTokens(S), NEW reached \in BOOLEAN,
             ClaimDue(w, at, S, token, reached)
      PROVE  IncidentConsistent'
  <2>1. ASSUME NEW t \in Tokens, runs[t].monitor # None PROVE runs'[t].monitor = runs[t].monitor
    <3> DEFINE ended == RunsEnded({monitors[m].token : m \in S}, "ABANDONED")
    <3>1. ~ \E m \in S : token[m] = t
      BY <1>0, <2>1 DEF FreshTokens, Unissued, Blank
    <3>2. runs'[t] = ended[t]
      BY <1>2, <3>1 DEF ClaimDue
    <3>3. ended[t].monitor = runs[t].monitor
      BY <1>0, RunsEndedMonitor
    <3> QED
      BY <3>2, <3>3
  <2>2. incidents' = incidents /\ states' = states
    BY <1>2 DEF ClaimDue
  <2> QED
    BY <2>1, <2>2, IncidentsUntouched DEF Unresolved
<1>3. ASSUME NEW w \in Workers, NEW claim \in held[w],
             NEW results \in [claim.config.resolvers -> Answers], NEW answered \in BOOLEAN,
             Commit(w, claim, results, answered)
      PROVE  IncidentConsistent'
  BY <1>3, CommitIncident
<1>4. ASSUME NEW w \in Workers, NEW claim \in held[w], Fail(w, claim)
      PROVE  IncidentConsistent'
  <2>1. \A t \in Tokens : runs'[t].monitor = runs[t].monitor
    BY <1>0, <1>4, RunsEndedMonitor DEF Fail
  <2> QED
    BY <1>4, <2>1, IncidentsUntouched DEF Fail, Unresolved
<1>5. ASSUME NEW m \in Monitors,
             \/ \E enabled \in BOOLEAN : SetEnabled(m, enabled)
             \/ \E c \in Configs : UpdateTiming(m, c)
      PROVE  IncidentConsistent'
  <2>1. /\ runs' = AbandonRun(m) /\ incidents' = incidents
        /\ states' = [states EXCEPT ![m].state = ResetStreaks(@)]
    BY <1>5 DEF SetEnabled, UpdateTiming
  <2>2. \A t \in Tokens : runs'[t].monitor = runs[t].monitor
    BY <1>0, <2>1, RunsEndedMonitor DEF AbandonRun
  <2>3. \A n \in Monitors : /\ states'[n].active = states[n].active
                            /\ states'[n].state.incidentOpen = states[n].state.incidentOpen
    BY <1>0, <2>1, ResetKeepsIncident DEF TypeOK
  <2> QED
    BY <2>1, <2>2, <2>3, IncidentsUntouched DEF Unresolved
<1>6. ASSUME NEW cl \in Clients, NEW c \in Configs, UpdateMonitor(cl, c)
      PROVE  IncidentConsistent'
  <2> DEFINE m == drafts[cl].monitor
             active == states[m].active
             changed == QueryIdentity(c) # QueryIdentity(monitors[m].config)
  <2>1. m \in Monitors /\ states[m].state \in StateType /\ active \in Tokens \cup {None}
    BY <1>0, <1>6 DEF UpdateMonitor, DraftIsCurrent, TypeOK, DraftType
  <2>2. \A t \in Tokens : runs'[t].monitor = runs[t].monitor
    BY <1>0, <1>6, RunsEndedMonitor DEF UpdateMonitor, AbandonRun
  <2>3. \A n \in Monitors \ {m} : states'[n] = states[n]
    BY <1>0, <1>6 DEF UpdateMonitor, TypeOK
  <2>4. CASE ~changed
    <3>1. /\ states'[m].active = states[m].active
          /\ states'[m].state.incidentOpen = states[m].state.incidentOpen
      <4>1. states'[m] = states[m] \/ states'[m] = [states[m] EXCEPT !.state = ResetStreaks(@)]
        <5> DEFINE after == CASE changed -> Fresh
                              [] ~changed /\ Timing(c) # Timing(monitors[m].config) ->
                                    [states[m] EXCEPT !.state = ResetStreaks(@)]
                              [] OTHER -> states[m]
        <5>1. after = states[m] \/ after = [states[m] EXCEPT !.state = ResetStreaks(@)]
          BY <2>4
        <5>2. states' = [states EXCEPT ![m] = after]
          BY <1>6 DEF UpdateMonitor
        <5>3. states'[m] = after
          <6> HIDE DEF after
          <6> QED
            BY <1>0, <2>1, <5>2 DEF TypeOK
        <5> QED
          BY <5>1, <5>3
      <4> QED
        BY <1>0, <2>1, <4>1, ResetKeepsIncident
    <3>2. incidents' = incidents
      BY <1>6, <2>4 DEF UpdateMonitor
    <3> QED
      BY <2>2, <2>3, <3>1, <3>2, IncidentsUntouched DEF Unresolved
  <2>5. CASE changed
    <3>1. states'[m] = Fresh
      BY <1>0, <1>6, <2>1, <2>5 DEF UpdateMonitor, TypeOK
    <3>2. Fresh.active = None /\ ~Fresh.state.incidentOpen
      BY DEF Fresh, InitialState
    <3>3. \A t \in Tokens : /\ t # active => incidents'[t] = incidents[t]
                            /\ t = active => incidents'[t] = "CLOSED"
      BY <1>0, <1>6, <2>5, NoneAssumption DEF UpdateMonitor, Closed, TypeOK
    <3> HIDE DEF m, active, changed
    <3>4. ASSUME NEW n \in Monitors
          PROVE  /\ states'[n].state.incidentOpen <=> states'[n].active # None
                 /\ states'[n].active # None =>
                       /\ incidents'[states'[n].active] \in {"OPEN", "ACKNOWLEDGED"}
                       /\ runs'[states'[n].active].monitor = n
      <4>1. CASE n = m
        BY <3>1, <3>2, <4>1
      <4>2. CASE n # m
        <5>1. states'[n] = states[n] /\ states[n].active \in Tokens \cup {None}
          BY <1>0, <2>3, <4>2
        <5>2. /\ states[n].state.incidentOpen <=> states[n].active # None
              /\ states[n].active # None =>
                    Unresolved(states[n].active) /\ runs[states[n].active].monitor = n
          BY DEF IncidentInv, IncidentConsistent
        <5>3. active # None => runs[active].monitor = m
          BY <2>1 DEF IncidentInv, IncidentConsistent, active
        <5>4. states[n].active # None => states[n].active # active
          BY <4>2, <5>2, <5>3
        <5> QED
          BY <2>2, <3>3, <5>1, <5>2, <5>4 DEF Unresolved
      <4> QED
        BY <4>1, <4>2
    <3>5. ASSUME NEW t \in Tokens, Unresolved(t)'
          PROVE  runs'[t].monitor # None /\ states'[runs'[t].monitor].active = t
      <4>1. t # active /\ Unresolved(t)
        BY <3>3, <3>5 DEF Unresolved
      <4>2. runs[t].monitor \in Monitors /\ states[runs[t].monitor].active = t
        BY <1>0, <4>1 DEF IncidentInv, IncidentConsistent, TypeOK, RunType
      <4>3. runs[t].monitor # m
        BY <4>1, <4>2 DEF active
      <4> QED
        BY <2>2, <2>3, <4>2, <4>3, NoneAssumption
    <3> QED
      BY <3>4, <3>5 DEF IncidentConsistent, Unresolved
  <2> QED
    BY <2>4, <2>5
<1>7. ASSUME NEW cl \in Clients, DeleteMonitor(cl)
      PROVE  IncidentConsistent'
  <2> DEFINE m == drafts[cl].monitor
  <2>1. m \in Monitors
    BY <1>0, <1>7 DEF DeleteMonitor, DraftIsCurrent, TypeOK, DraftType
  <2>2. /\ states'[m] = Fresh /\ \A n \in Monitors \ {m} : states'[n] = states[n]
        /\ Fresh.active = None /\ ~Fresh.state.incidentOpen
    BY <1>0, <1>7, <2>1 DEF DeleteMonitor, TypeOK, Fresh, InitialState
  <2>3. \A t \in Tokens : /\ runs'[t].monitor = runs[t].monitor
                          /\ runs[t].monitor = m => incidents'[t] = "NONE"
                          /\ runs[t].monitor # m => incidents'[t] = incidents[t]
    BY <1>0, <1>7 DEF DeleteMonitor, OfMonitor, TypeOK, RunType
  <2> HIDE DEF m
  <2>4. ASSUME NEW n \in Monitors
        PROVE  /\ states'[n].state.incidentOpen <=> states'[n].active # None
               /\ states'[n].active # None =>
                     /\ incidents'[states'[n].active] \in {"OPEN", "ACKNOWLEDGED"}
                     /\ runs'[states'[n].active].monitor = n
    <3>1. CASE n = m
      BY <2>2, <3>1
    <3>2. CASE n # m
      <4>1. states'[n] = states[n] /\ states[n].active \in Tokens \cup {None}
        BY <1>0, <2>2, <3>2
      <4>2. /\ states[n].state.incidentOpen <=> states[n].active # None
            /\ states[n].active # None =>
                  Unresolved(states[n].active) /\ runs[states[n].active].monitor = n
        BY DEF IncidentInv, IncidentConsistent
      <4> QED
        BY <2>3, <3>2, <4>1, <4>2 DEF Unresolved
    <3> QED
      BY <3>1, <3>2
  <2>5. ASSUME NEW t \in Tokens, Unresolved(t)'
        PROVE  runs'[t].monitor # None /\ states'[runs'[t].monitor].active = t
    <3>1. runs[t].monitor # m /\ Unresolved(t)
      BY <2>3, <2>5 DEF Unresolved
    <3>2. runs[t].monitor \in Monitors /\ states[runs[t].monitor].active = t
      BY <1>0, <3>1 DEF IncidentInv, IncidentConsistent, TypeOK, RunType
    <3> QED
      BY <2>2, <2>3, <3>1, <3>2, NoneAssumption
  <2> QED
    BY <2>4, <2>5 DEF IncidentConsistent, Unresolved
<1>8. ASSUME NEW t \in Tokens, Acknowledge(t)
      PROVE  IncidentConsistent'
  <2>1. \A u \in Tokens : Unresolved(u)' <=> Unresolved(u)
    BY <1>0, <1>8 DEF Acknowledge, Unresolved, TypeOK
  <2> QED
    BY <1>8, <2>1, IncidentsUntouched DEF Acknowledge
<1>9. CASE \/ \E w \in Workers : \E claim \in held[w] :
                 Discard(w, claim) \/ Interrupt(w, claim) \/ ReleaseError(w, claim)
           \/ \E m \in Monitors : CheckNow(m)
           \/ \E cl \in Clients, m \in Monitors : Inspect(cl, m)
           \/ \E j \in jobs : RouteJob(j)
           \/ \E w \in Workers : Crash(w)
           \/ Tick
           \/ UNCHANGED vars
  <2>1. runs' = runs /\ states' = states /\ incidents' = incidents
    BY <1>9 DEF Discard, Interrupt, ReleaseError, CheckNow, Inspect, RouteJob, Crash, Tick, vars
  <2> QED
    BY <2>1, IncidentsUntouched DEF Unresolved
<1> QED
  BY <1>1, <1>2, <1>3, <1>4, <1>5, <1>6, <1>7, <1>8, <1>9
     DEF Next, Claiming, Working, Operating, Editing

\* The flag, active_incident_id and the incidents table always agree: the assertions
\* `Active incident invariant violated' and `Missing active incident' of complete()
\* never fire, and no incident is left unresolved that no check will ever resolve.
THEOREM IncidentsAgree == Spec => []IncidentConsistent
<1>1. Init => IncidentConsistent
  BY DEF Init, IncidentConsistent, Unresolved, Fresh, InitialState
<1>2. Init => Blank /\ RunningIffLeased
  BY DEF Init, Blank, RunningIffLeased, Running, NoRow
<1>3. TypeOK /\ TypeOK' /\ (Blank /\ RunningIffLeased /\ IncidentConsistent) /\ [Next]_vars
         => (Blank /\ RunningIffLeased /\ IncidentConsistent)'
  BY LeaseInvStep, IncidentInvStep DEF LeaseInv, IncidentInv
<1> QED
  BY <1>1, <1>2, <1>3, TypeCorrect, PTL DEF Spec

(***************************** finished runs *******************************)

\* No step rewrites a run that has ended: a late worker's results, a second
\* completion and the fail() after a commit whose answer was lost all bounce off.
THEOREM FinishedRunsAreFinal == Spec => FinishedRunsStay
<1> DEFINE Kept == \A t \in Tokens : Finished(t) =>
                       runs'[t] = runs[t] \/ runs'[t].status = "DELETED"
<1>1. TypeOK /\ RunningIffLeased /\ [Next]_vars => [Kept]_vars
  <2> SUFFICES ASSUME TypeOK, RunningIffLeased, Next PROVE Kept
    OBVIOUS
  <2>1. ASSUME NEW ts, NEW status, runs' = RunsEnded(ts, status) PROVE Kept
    BY <2>1 DEF RunsEnded, Running, Finished
  <2>2. ASSUME NEW w \in Workers, NEW at \in 1..now, NEW S \in SUBSET Monitors,
               NEW token \in FreshTokens(S), NEW reached \in BOOLEAN,
               ClaimDue(w, at, S, token, reached)
        PROVE  Kept
    <3> DEFINE ended == RunsEnded({monitors[m].token : m \in S}, "ABANDONED")
    <3> SUFFICES ASSUME NEW t \in Tokens, Finished(t) PROVE runs'[t] = runs[t]
      OBVIOUS
    <3>1. ~ \E m \in S : token[m] = t
      BY DEF FreshTokens, Unissued, Finished
    <3>2. runs'[t] = ended[t]
      BY <2>2, <3>1 DEF ClaimDue
    <3>3. ended[t] = runs[t]
      BY DEF RunsEnded, Running, Finished
    <3> QED
      BY <3>2, <3>3
  <2>3. ASSUME NEW w \in Workers, NEW claim \in held[w],
               NEW results \in [claim.config.resolvers -> Answers], NEW answered \in BOOLEAN,
               Commit(w, claim, results, answered)
        PROVE  Kept
    <3>1. claim.token \in Tokens /\ claim.monitor \in Monitors /\ claim.token # None
      BY NoneAssumption DEF TypeOK, ClaimType
    <3>2. Running(claim.token)
      BY <2>3, <3>1 DEF Commit, Current, RunningIffLeased
    <3>3. \A t \in Tokens : t # claim.token => runs'[t] = runs[t]
      BY <2>3 DEF Commit, TypeOK
    <3> QED
      BY <3>2, <3>3 DEF Running, Finished
  <2>4. ASSUME NEW w \in Workers, NEW claim \in held[w], Fail(w, claim) PROVE Kept
    BY <2>1, <2>4 DEF Fail
  <2>5. CASE \/ \E m \in Monitors : \/ \E enabled \in BOOLEAN : SetEnabled(m, enabled)
                                    \/ \E c \in Configs : UpdateTiming(m, c)
             \/ \E cl \in Clients : \E c \in Configs : UpdateMonitor(cl, c)
    BY <2>1, <2>5 DEF SetEnabled, UpdateTiming, UpdateMonitor, AbandonRun
  <2>6. ASSUME NEW cl \in Clients, DeleteMonitor(cl) PROVE Kept
    BY <2>6 DEF DeleteMonitor, TypeOK, RunType
  <2>7. CASE runs' = runs
    BY <2>7
  <2>8. CASE \/ \E w \in Workers : \E claim \in held[w] :
                   Discard(w, claim) \/ Interrupt(w, claim) \/ ReleaseError(w, claim)
             \/ \E m \in Monitors : \/ CheckNow(m)
                                    \/ \E c \in Configs, delay \in Nat : CreateMonitor(m, c, delay)
             \/ \E cl \in Clients, m \in Monitors : Inspect(cl, m)
             \/ \E t \in Tokens : Acknowledge(t)
             \/ \E j \in jobs : RouteJob(j)
             \/ \E w \in Workers : Crash(w)
             \/ Tick
    BY <2>7, <2>8 DEF Discard, Interrupt, ReleaseError, CheckNow, CreateMonitor, Inspect,
                      Acknowledge, RouteJob, Crash, Tick
  <2>9. \A c \in Configs : 0..(c.interval - 1) \subseteq Nat
    BY ConfigsAssumption
  <2> QED
    BY <2>2, <2>3, <2>4, <2>5, <2>6, <2>8, <2>9
       DEF Next, Claiming, Working, Operating, Editing
<1> QED
  BY <1>1, TypeCorrect, LeasesAndRunsAgree, PTL DEF Spec, FinishedRunsStay

-----------------------------------------------------------------------------
(********************** what a remembered revision names *******************)

\* A revision of m is not later than the one in force, and the one in force has this
\* configuration.
Names(m, revision, c) ==
    /\ monitors[m].phase # "ABSENT"
    /\ Present(m) => /\ revision <= monitors[m].revision
                     /\ revision = monitors[m].revision => c = monitors[m].config

Remembered ==
    /\ \A w \in Workers : \A claim \in held[w] :
           Names(claim.monitor, claim.revision, claim.config)
    /\ \A cl \in Clients : drafts[cl].monitor # None =>
           Names(drafts[cl].monitor, drafts[cl].revision, drafts[cl].seen)

\* A claim has an issued token; while that is the lease, nothing has moved the slot that
\* was claimed, nor the revision that the run was started with.
Leased ==
    /\ \A w \in Workers : \A claim \in held[w] :
           /\ runs[claim.token].status # "UNISSUED"
           /\ monitors[claim.monitor].token = claim.token =>
                  monitors[claim.monitor].next = claim.scheduledAt
    /\ \A m \in Monitors : monitors[m].token # None =>
           /\ monitors[m].next <= now
           /\ runs[monitors[m].token].revision = monitors[m].revision

\* The history of a monitor begins at one of its revisions.
HistoryBegun == \A m \in Monitors : monitors[m].history <= monitors[m].revision

\* Only a monitor that is there has jobs, and the ones to be routed are about its history.
JobsSilent ==
    \A j \in jobs :
        /\ Present(j.event.monitor)
        /\ j.status = "PENDING" => j.event.revision >= monitors[j.event.monitor].history

\* An incident that is not over is about the history of its monitor.
AlarmsSilent ==
    \A t \in Tokens : Unresolved(t) => runs[t].revision >= monitors[runs[t].monitor].history

Silent == HistoryBegun /\ JobsSilent /\ AlarmsSilent

\* An event is about an incident of its own monitor.
EventsAgree ==
    \A e \in events : e.incident # None => runs[e.incident].monitor = e.monitor

(*************************** what a step does ******************************)

\* The row of a monitor stays, is edited, appears or goes.
RowStep(m) ==
    LET row == monitors[m]
        new == monitors'[m]
    IN  \/ /\ new.phase = row.phase /\ new.config = row.config /\ new.enabled = row.enabled
           /\ new.revision = row.revision /\ new.history = row.history
        \/ /\ row.phase = "PRESENT" /\ new.phase = "PRESENT" /\ new.token = None
           /\ new.revision = row.revision + 1 /\ new.history \in {row.history, new.revision}
        \/ /\ row.phase = "ABSENT" /\ new.phase = "PRESENT" /\ new.token = None
           /\ new.revision = 1 /\ new.history = 1
        \/ row.phase = "PRESENT" /\ new = [NoRow EXCEPT !.phase = "DELETED"]

\* Its lease is given up, stays, or goes to a token that was never used.
LeaseStep(m) ==
    LET row == monitors[m]
        new == monitors'[m]
    IN  \/ new.token = None
        \/ new.token = row.token /\ new.next = row.next /\ new.revision = row.revision
        \/ /\ new.token \in Unissued /\ new.next = row.next /\ row.next <= now
           /\ runs'[new.token].revision = new.revision

\* A run keeps its monitor and its revision.
RunStep(t) ==
    runs[t].status # "UNISSUED" =>
        /\ runs'[t].status # "UNISSUED"
        /\ runs'[t].monitor = runs[t].monitor /\ runs'[t].revision = runs[t].revision

\* A worker holds what it held, or what it has just claimed.
HeldStep(w) ==
    \A new \in held'[w] :
        \/ \E claim \in held[w] : new = claim \/ new = [claim EXCEPT !.pc = "RELEASE"]
        \/ \E m \in Monitors, t \in Tokens :
               /\ new = Claim(m, t)
               /\ Present(m) /\ runs[t].status = "UNISSUED" /\ runs'[t].status = "RUNNING"
               /\ monitors'[m].phase = "PRESENT" /\ monitors'[m].revision = monitors[m].revision
               /\ monitors'[m].config = monitors[m].config /\ monitors'[m].next = monitors[m].next

\* A client remembers what it did, nothing, or what it has just seen.
DraftStep(cl) ==
    \/ drafts'[cl] \in {drafts[cl], NoDraft}
    \/ \E m \in Monitors :
           /\ Present(m) /\ monitors' = monitors
           /\ drafts'[cl] = [monitor |-> m, revision |-> monitors[m].revision,
                             seen |-> monitors[m].config]

Moves ==
    /\ \A m \in Monitors : RowStep(m) /\ LeaseStep(m)
    /\ \A t \in Tokens : RunStep(t)
    /\ \A w \in Workers : HeldStep(w)
    /\ \A cl \in Clients : DraftStep(cl)

\* Ending runs is a step of each run.
LEMMA RunsEndedStep ==
    ASSUME TypeOK, NEW ts, NEW status \in {"COMPLETED", "ERROR", "ABANDONED"},
           runs' = RunsEnded(ts, status)
    PROVE  \A t \in Tokens : RunStep(t)
  BY DEF RunsEnded, RunStep, TypeOK, RunType

\* A claim that is dropped or released is a step of every worker.
LEMMA HeldSteps ==
    ASSUME TypeOK, NEW w \in Workers, NEW claim \in held[w], Drop(w, claim) \/ Release(w, claim)
    PROVE  \A x \in Workers : HeldStep(x)
  BY DEF Drop, Release, HeldStep, TypeOK

\* An edit of the columns of m is a step of every row and lease.
LEMMA EditSteps ==
    ASSUME TypeOK, NEW m \in Monitors, NEW row, MayEdit(m),
           monitors' = [monitors EXCEPT ![m] = row],
           row.phase = "PRESENT", row.token = None, row.revision = monitors[m].revision + 1,
           row.history \in {monitors[m].history, row.revision}
    PROVE  \A n \in Monitors : RowStep(n) /\ LeaseStep(n)
  BY DEF MayEdit, Present, RowStep, LeaseStep, TypeOK

\* Releasing a monitor keeps all its other columns.
LEMMA ReleasedKeeps ==
    ASSUME NEW row \in RowType, NEW next
    PROVE  /\ Released(row, next).token = None
           /\ Released(row, next).phase = row.phase
           /\ Released(row, next).config = row.config
           /\ Released(row, next).enabled = row.enabled
           /\ Released(row, next).revision = row.revision
           /\ Released(row, next).history = row.history
  BY DEF Released, RowType

\* Making a monitor due keeps all its other columns.
LEMMA DueKeeps ==
    ASSUME NEW row \in RowType, NEW next
    PROVE  LET new == [row EXCEPT !.next = next]
           IN  /\ new.token = row.token /\ new.phase = row.phase
               /\ new.config = row.config /\ new.enabled = row.enabled
               /\ new.revision = row.revision /\ new.history = row.history
  BY DEF RowType

\* So releasing a monitor is a step of every row and lease.
LEMMA ReleaseSteps ==
    ASSUME TypeOK, NEW m \in Monitors, NEW next, monitors' = [monitors EXCEPT ![m] = Released(@, next)]
    PROVE  \A n \in Monitors : RowStep(n) /\ LeaseStep(n)
<1>1. monitors[m] \in RowType /\ monitors'[m] = Released(monitors[m], next)
  BY DEF TypeOK
<1>2. /\ monitors'[m].token = None /\ monitors'[m].phase = monitors[m].phase
      /\ monitors'[m].config = monitors[m].config /\ monitors'[m].enabled = monitors[m].enabled
      /\ monitors'[m].revision = monitors[m].revision /\ monitors'[m].history = monitors[m].history
  BY <1>1, ReleasedKeeps
<1>3. RowStep(m) /\ LeaseStep(m)
  BY <1>2 DEF RowStep, LeaseStep
<1>4. \A n \in Monitors \ {m} : monitors'[n] = monitors[n]
  BY DEF TypeOK
<1> QED
  BY <1>3, <1>4 DEF RowStep, LeaseStep

\* Every step of the scheduler is one of these for each row, run, worker and client.
LEMMA StepMoves == TypeOK /\ [Next]_vars => Moves
<1> SUFFICES ASSUME TypeOK, [Next]_vars PROVE Moves
  OBVIOUS
<1> USE DEF Present
<1>0. /\ held' = held => \A w \in Workers : HeldStep(w)
      /\ drafts' = drafts => \A cl \in Clients : DraftStep(cl)
      /\ runs' = runs => \A t \in Tokens : RunStep(t)
      /\ monitors' = monitors => \A m \in Monitors : RowStep(m) /\ LeaseStep(m)
  BY DEF HeldStep, DraftStep, RunStep, RowStep, LeaseStep
<1>1. ASSUME NEW m \in Monitors, NEW c \in Configs, NEW delay \in 0..(c.interval - 1),
             CreateMonitor(m, c, delay)
      PROVE  Moves
  <2>1. \A n \in Monitors : RowStep(n) /\ LeaseStep(n)
    BY <1>1 DEF CreateMonitor, RowStep, LeaseStep, TypeOK
  <2> QED
    BY <1>0, <1>1, <2>1 DEF CreateMonitor, Moves
<1>2. ASSUME NEW w \in Workers, NEW at \in 1..now, NEW S \in SUBSET Monitors,
             NEW token \in FreshTokens(S), NEW reached \in BOOLEAN,
             ClaimDue(w, at, S, token, reached)
      PROVE  Moves
  <2>1. /\ \A m \in S : token[m] \in Tokens /\ runs[token[m]].status = "UNISSUED"
        /\ \A m, n \in S : token[m] = token[n] => m = n
    BY DEF FreshTokens, Unissued
  <2>2. \A n \in Monitors :
           /\ n \in S => monitors'[n] = [monitors[n] EXCEPT !.token = token[n],
                                         !.lease = LeaseEnd(monitors[n].config, at)]
           /\ n \notin S => monitors'[n] = monitors[n]
           /\ n \in S => monitors[n].phase = "PRESENT" /\ monitors[n].next <= now
    <3>1. at <= now /\ at \in Nat /\ now \in Nat /\ \A n \in Monitors : monitors[n].next \in Nat
      BY DEF TypeOK, RowType
    <3>2. \A n \in S : monitors[n].phase = "PRESENT" /\ monitors[n].next <= at
      BY <1>2 DEF ClaimDue, Due
    <3>3. monitors' = [n \in Monitors |->
               IF n \in S THEN [monitors[n] EXCEPT !.token = token[n],
                                                  !.lease = LeaseEnd(monitors[n].config, at)]
               ELSE monitors[n]]
      BY <1>2 DEF ClaimDue
    <3>4. \A n \in S : monitors[n].next <= now
      BY <3>1, <3>2
    <3> QED
      BY <3>2, <3>3, <3>4
  <2>3. \A n \in S : /\ monitors'[n].token = token[n] /\ monitors'[n].next = monitors[n].next
                      /\ monitors'[n].phase = monitors[n].phase
                      /\ monitors'[n].config = monitors[n].config
                      /\ monitors'[n].enabled = monitors[n].enabled
                      /\ monitors'[n].revision = monitors[n].revision
                      /\ monitors'[n].history = monitors[n].history
    BY <2>2 DEF TypeOK, RowType
  <2>4. ASSUME NEW m \in S
        PROVE  runs'[token[m]].status = "RUNNING"
               /\ runs'[token[m]].revision = monitors[m].revision
    <3>1. (CHOOSE x \in S : token[x] = token[m]) = m
      BY <2>1
    <3>2. runs'[token[m]] = [status |-> "RUNNING", monitor |-> m,
                             revision |-> monitors[m].revision]
      BY <1>2, <2>1, <3>1 DEF ClaimDue
    <3> QED
      BY <3>2
  <2>5. ASSUME NEW m \in Monitors PROVE RowStep(m) /\ LeaseStep(m)
    <3>1. CASE m \in S
      <4>1. monitors'[m].token = token[m] /\ monitors'[m].revision = monitors[m].revision
        BY <2>3, <3>1
      <4>2. token[m] \in Unissued /\ monitors[m].next <= now
        BY <2>1, <2>2, <3>1 DEF Unissued
      <4>3. runs'[monitors'[m].token].revision = monitors'[m].revision
        BY <2>4, <3>1, <4>1
      <4> QED
        BY <2>3, <3>1, <4>1, <4>2, <4>3 DEF RowStep, LeaseStep
    <3>2. CASE m \notin S
      BY <2>2, <3>2 DEF RowStep, LeaseStep
    <3> QED
      BY <3>1, <3>2
  <2>6. ASSUME NEW t \in Tokens, runs[t].status # "UNISSUED" PROVE RunStep(t)
    <3> DEFINE ended == RunsEnded({monitors[m].token : m \in S}, "ABANDONED")
    <3>1. runs'[t] = ended[t]
      BY <1>2, <2>1, <2>6 DEF ClaimDue
    <3>2. ended[t].status # "UNISSUED" /\ ended[t].monitor = runs[t].monitor
          /\ ended[t].revision = runs[t].revision
      BY <2>6 DEF RunsEnded, TypeOK, RunType
    <3> QED
      BY <3>1, <3>2 DEF RunStep
  <2>7. ASSUME NEW x \in Workers PROVE HeldStep(x)
    <3> DEFINE new == {Claim(m, token[m]) : m \in S}
    <3>1. held'[x] \subseteq held[x] \cup new
      BY <1>2 DEF ClaimDue, TypeOK
    <3>2. ASSUME NEW claim \in new
          PROVE  \E m \in Monitors, t \in Tokens :
                    /\ claim = Claim(m, t)
                    /\ Present(m) /\ runs[t].status = "UNISSUED" /\ runs'[t].status = "RUNNING"
                    /\ monitors'[m].phase = "PRESENT"
                    /\ monitors'[m].revision = monitors[m].revision
                    /\ monitors'[m].config = monitors[m].config
                    /\ monitors'[m].next = monitors[m].next
      <4>1. PICK m \in S : claim = Claim(m, token[m])
        BY <3>2
      <4>2. m \in Monitors /\ token[m] \in Tokens /\ runs'[token[m]].status = "RUNNING"
            /\ monitors[m].phase = "PRESENT" /\ runs[token[m]].status = "UNISSUED"
        BY <2>1, <2>2, <2>4
      <4>3. monitors'[m].phase = "PRESENT" /\ monitors'[m].revision = monitors[m].revision
            /\ monitors'[m].config = monitors[m].config /\ monitors'[m].next = monitors[m].next
        BY <2>3, <4>2
      <4> QED
        BY <4>1, <4>2, <4>3
    <3> HIDE DEF new
    <3> QED
      BY <3>1, <3>2 DEF HeldStep
  <2> QED
    BY <1>0, <1>2, <2>5, <2>6, <2>7 DEF ClaimDue, Moves, RunStep
<1>3. ASSUME NEW w \in Workers, NEW claim \in held[w],
             NEW results \in [claim.config.resolvers -> Answers], NEW answered \in BOOLEAN,
             Commit(w, claim, results, answered)
      PROVE  Moves
  <2>1. claim.monitor \in Monitors
    BY DEF TypeOK, ClaimType
  <2>2. \A n \in Monitors : RowStep(n) /\ LeaseStep(n)
    BY <1>3, <2>1, ReleaseSteps DEF Commit
  <2>3. \A t \in Tokens : RunStep(t)
    BY <1>3 DEF Commit, RunStep, TypeOK, RunType
  <2>4. \A x \in Workers : HeldStep(x)
    BY <1>3, HeldSteps DEF Commit
  <2> QED
    BY <1>0, <1>3, <2>2, <2>3, <2>4 DEF Commit, Moves
<1>4. ASSUME NEW w \in Workers, NEW claim \in held[w],
             Discard(w, claim) \/ Interrupt(w, claim) \/ ReleaseError(w, claim)
      PROVE  Moves
  BY <1>0, <1>4, HeldSteps DEF Discard, Interrupt, ReleaseError, Moves
<1>5. ASSUME NEW w \in Workers, NEW claim \in held[w], Fail(w, claim)
      PROVE  Moves
  <2>1. claim.monitor \in Monitors
    BY DEF TypeOK, ClaimType
  <2>2. \A n \in Monitors : RowStep(n) /\ LeaseStep(n)
    BY <1>0, <1>5, <2>1, ReleaseSteps DEF Fail
  <2>3. \A t \in Tokens : RunStep(t)
    BY <1>0, <1>5, RunsEndedStep DEF Fail
  <2>4. \A x \in Workers : HeldStep(x)
    BY <1>5, HeldSteps DEF Fail
  <2> QED
    BY <1>0, <1>5, <2>2, <2>3, <2>4 DEF Fail, Moves
<1>6. ASSUME NEW m \in Monitors, NEW enabled \in BOOLEAN, SetEnabled(m, enabled)
      PROVE  Moves
  <2> DEFINE row == [Edited(monitors[m]) EXCEPT !.enabled = enabled]
  <2>1. row.phase = "PRESENT" /\ row.token = None /\ row.revision = monitors[m].revision + 1
        /\ row.history = monitors[m].history
    BY <1>6 DEF SetEnabled, MayEdit, Edited, Released, TypeOK, RowType
  <2>2. monitors' = [monitors EXCEPT ![m] = row] /\ MayEdit(m)
    BY <1>6 DEF SetEnabled
  <2> HIDE DEF row
  <2>3. \A n \in Monitors : RowStep(n) /\ LeaseStep(n)
    BY <2>1, <2>2, EditSteps
  <2>4. \A t \in Tokens : RunStep(t)
    BY <1>6, RunsEndedStep DEF SetEnabled, AbandonRun
  <2> QED
    BY <1>0, <1>6, <2>3, <2>4 DEF SetEnabled, Moves
<1>7. ASSUME NEW m \in Monitors, NEW c \in Configs, UpdateTiming(m, c)
      PROVE  Moves
  <2> DEFINE row == [Edited(monitors[m]) EXCEPT !.config = c]
  <2>1. row.phase = "PRESENT" /\ row.token = None /\ row.revision = monitors[m].revision + 1
        /\ row.history = monitors[m].history
    BY <1>7 DEF UpdateTiming, MayEdit, Edited, Released, TypeOK, RowType
  <2>2. monitors' = [monitors EXCEPT ![m] = row] /\ MayEdit(m)
    BY <1>7 DEF UpdateTiming
  <2> HIDE DEF row
  <2>3. \A n \in Monitors : RowStep(n) /\ LeaseStep(n)
    BY <2>1, <2>2, EditSteps
  <2>4. \A t \in Tokens : RunStep(t)
    BY <1>7, RunsEndedStep DEF UpdateTiming, AbandonRun
  <2> QED
    BY <1>0, <1>7, <2>3, <2>4 DEF UpdateTiming, Moves
<1>8. ASSUME NEW m \in Monitors, CheckNow(m)
      PROVE  Moves
  <2>1. \A n \in Monitors : RowStep(n) /\ LeaseStep(n)
    <3>1. monitors[m] \in RowType /\ monitors'[m] = [monitors[m] EXCEPT !.next = now]
          /\ monitors[m].token = None
      BY <1>8 DEF CheckNow, TypeOK
    <3>2. /\ monitors'[m].token = None /\ monitors'[m].phase = monitors[m].phase
          /\ monitors'[m].config = monitors[m].config /\ monitors'[m].enabled = monitors[m].enabled
          /\ monitors'[m].revision = monitors[m].revision
          /\ monitors'[m].history = monitors[m].history
      BY <3>1, DueKeeps
    <3>3. \A n \in Monitors \ {m} : monitors'[n] = monitors[n]
      BY <1>8 DEF CheckNow, TypeOK
    <3> QED
      BY <3>2, <3>3 DEF RowStep, LeaseStep
  <2> QED
    BY <1>0, <1>8, <2>1 DEF CheckNow, Moves
<1>9. ASSUME NEW cl \in Clients, NEW m \in Monitors, Inspect(cl, m)
      PROVE  Moves
  <2>1. \A x \in Clients : DraftStep(x)
    BY <1>9 DEF Inspect, DraftStep, TypeOK
  <2> QED
    BY <1>0, <1>9, <2>1 DEF Inspect, Moves
<1>10. ASSUME NEW cl \in Clients, NEW c \in Configs, UpdateMonitor(cl, c)
       PROVE  Moves
  <2> DEFINE m == drafts[cl].monitor
             row == [Edited(monitors[m]) EXCEPT !.config = c,
                        !.history = IF QueryIdentity(c) # QueryIdentity(monitors[m].config)
                                    THEN monitors[m].revision + 1 ELSE monitors[m].history]
  <2>1. m \in Monitors /\ MayEdit(m) /\ monitors[m] \in RowType
    BY <1>10 DEF UpdateMonitor, DraftIsCurrent, TypeOK, DraftType
  <2>2. row.phase = "PRESENT" /\ row.token = None /\ row.revision = monitors[m].revision + 1
        /\ row.history \in {monitors[m].history, row.revision}
    BY <2>1 DEF MayEdit, Edited, Released, RowType
  <2>3. monitors' = [monitors EXCEPT ![m] = row]
    BY <1>10 DEF UpdateMonitor
  <2> HIDE DEF row
  <2>4. \A n \in Monitors : RowStep(n) /\ LeaseStep(n)
    BY <2>1, <2>2, <2>3, EditSteps
  <2>5. \A t \in Tokens : RunStep(t)
    BY <1>10, RunsEndedStep DEF UpdateMonitor, AbandonRun
  <2>6. \A x \in Clients : DraftStep(x)
    BY <1>10 DEF UpdateMonitor, DraftStep, TypeOK
  <2> QED
    BY <1>0, <1>10, <2>4, <2>5, <2>6 DEF UpdateMonitor, Moves
<1>11. ASSUME NEW cl \in Clients, DeleteMonitor(cl)
       PROVE  Moves
  <2>1. drafts[cl].monitor \in Monitors /\ Present(drafts[cl].monitor)
    BY <1>11 DEF DeleteMonitor, DraftIsCurrent, TypeOK, DraftType
  <2>2. \A n \in Monitors : RowStep(n) /\ LeaseStep(n)
    <3> DEFINE gone == [NoRow EXCEPT !.phase = "DELETED"]
    <3>1. gone.token = None
      BY DEF NoRow
    <3>2. monitors' = [monitors EXCEPT ![drafts[cl].monitor] = gone]
      BY <1>11 DEF DeleteMonitor
    <3>3. \A n \in Monitors : RowStep(n)
      BY <2>1, <3>2 DEF RowStep, TypeOK
    <3> HIDE DEF gone
    <3>4. \A n \in Monitors : LeaseStep(n)
      BY <2>1, <3>1, <3>2 DEF LeaseStep, TypeOK
    <3> QED
      BY <3>3, <3>4
  <2>3. \A t \in Tokens : RunStep(t)
    BY <1>11 DEF DeleteMonitor, RunStep, TypeOK, RunType
  <2>4. \A x \in Clients : DraftStep(x)
    BY <1>11 DEF DeleteMonitor, DraftStep, TypeOK
  <2> QED
    BY <1>0, <1>11, <2>2, <2>3, <2>4 DEF DeleteMonitor, Moves
<1>12. ASSUME NEW w \in Workers, Crash(w)
       PROVE  Moves
  <2>1. \A x \in Workers : HeldStep(x)
    BY <1>12 DEF Crash, HeldStep, TypeOK
  <2> QED
    BY <1>0, <1>12, <2>1 DEF Crash, Moves
<1>13. CASE \/ \E t \in Tokens : Acknowledge(t)
            \/ \E j \in jobs : RouteJob(j)
            \/ Tick
            \/ UNCHANGED vars
  BY <1>0, <1>13 DEF Acknowledge, RouteJob, Tick, vars, Moves
<1> QED
  BY <1>1, <1>2, <1>3, <1>4, <1>5, <1>6, <1>7, <1>8, <1>9, <1>10, <1>11, <1>12, <1>13
     DEF Next, Claiming, Working, Operating, Editing

(*************** what a remembered revision names: proofs ******************)

\* A revision that names a configuration goes on naming it, or is past for good.
LEMMA NamesKept ==
    ASSUME TypeOK, NEW m \in Monitors, NEW revision \in 0..MaxRevision, NEW c,
           Names(m, revision, c), RowStep(m)
    PROVE  Names(m, revision, c)'
<1>1. monitors[m].revision \in Nat /\ revision \in Nat
  BY BoundsAssumption DEF TypeOK, RowType
<1>2. [NoRow EXCEPT !.phase = "DELETED"].phase = "DELETED"
  BY DEF NoRow
<1>3. CASE monitors'[m] = [NoRow EXCEPT !.phase = "DELETED"]
  <2>1. monitors'[m].phase = "DELETED"
    BY <1>2, <1>3
  <2> QED
    BY <2>1 DEF Names, Present
<1>4. CASE ~(monitors'[m] = [NoRow EXCEPT !.phase = "DELETED"])
  BY <1>1, <1>4 DEF Names, RowStep, Present
<1> QED
  BY <1>3, <1>4

\* Every step keeps what workers and clients remember true.
LEMMA RememberedStep == TypeOK /\ Remembered /\ [Next]_vars => Remembered'
<1> SUFFICES ASSUME TypeOK, Remembered, [Next]_vars PROVE Remembered'
  OBVIOUS
<1>1. Moves
  BY StepMoves
<1>2. ASSUME NEW w \in Workers, NEW new \in held'[w]
      PROVE  Names(new.monitor, new.revision, new.config)'
  <2>1. CASE \E claim \in held[w] : new = claim \/ new = [claim EXCEPT !.pc = "RELEASE"]
    <3>1. PICK claim \in held[w] : new = claim \/ new = [claim EXCEPT !.pc = "RELEASE"]
      BY <2>1
    <3>2. claim \in ClaimType
      BY DEF TypeOK
    <3>3. /\ new.monitor = claim.monitor /\ new.revision = claim.revision
          /\ new.config = claim.config
          /\ claim.monitor \in Monitors /\ claim.revision \in 0..MaxRevision
      BY <3>1, <3>2 DEF ClaimType
    <3>4. Names(claim.monitor, claim.revision, claim.config)
      BY DEF Remembered
    <3>5. Names(claim.monitor, claim.revision, claim.config)'
      <4> DEFINE m == claim.monitor
                 revision == claim.revision
                 c == claim.config
      <4>1. ASSUME NEW x \in Monitors, NEW r \in 0..MaxRevision, NEW d,
                   x = m, r = revision, d = c
            PROVE  Names(x, r, d)'
        BY <1>1, <3>4, <4>1, NamesKept DEF Moves
      <4> QED
        BY <3>3, <4>1
    <3> QED
      BY <3>3, <3>5
  <2>2. CASE \E m \in Monitors, t \in Tokens :
               /\ new = Claim(m, t)
               /\ monitors'[m].phase = "PRESENT" /\ monitors'[m].revision = monitors[m].revision
               /\ monitors'[m].config = monitors[m].config
    <3>1. PICK m \in Monitors, t \in Tokens :
               /\ new = Claim(m, t)
               /\ monitors'[m].phase = "PRESENT" /\ monitors'[m].revision = monitors[m].revision
               /\ monitors'[m].config = monitors[m].config
      BY <2>2
    <3>2. new.monitor = m /\ new.revision = monitors[m].revision /\ new.config = monitors[m].config
      BY <3>1 DEF Claim
    <3>3. monitors[m].revision \in Nat
      BY BoundsAssumption DEF TypeOK, RowType
    <3> QED
      BY <3>1, <3>2, <3>3 DEF Names, Present
  <2> QED
    BY <1>1, <2>1, <2>2 DEF Moves, HeldStep
<1>3. ASSUME NEW cl \in Clients, drafts'[cl].monitor # None
      PROVE  Names(drafts[cl].monitor, drafts[cl].revision, drafts[cl].seen)'
  <2>1. CASE drafts'[cl] = drafts[cl]
    <3>1. drafts[cl] \in DraftType
      BY DEF TypeOK
    <3>2. drafts[cl].monitor \in Monitors /\ drafts[cl].revision \in 0..MaxRevision
      BY <1>3, <2>1, <3>1 DEF DraftType
    <3>3. Names(drafts[cl].monitor, drafts[cl].revision, drafts[cl].seen)
      BY <1>3, <2>1 DEF Remembered
    <3>4. ASSUME NEW x \in Monitors, NEW r \in 0..MaxRevision, NEW d,
                 x = drafts[cl].monitor, r = drafts[cl].revision, d = drafts[cl].seen
          PROVE  Names(x, r, d)'
      BY <1>1, <3>3, <3>4, NamesKept DEF Moves
    <3> QED
      BY <2>1, <3>2, <3>4
  <2>2. CASE drafts'[cl] = NoDraft
    BY <1>3, <2>2 DEF NoDraft
  <2>3. CASE \E m \in Monitors :
               /\ Present(m) /\ monitors' = monitors
               /\ drafts'[cl] = [monitor |-> m, revision |-> monitors[m].revision,
                                 seen |-> monitors[m].config]
    <3>1. \A m \in Monitors : monitors[m].revision \in Nat
      BY BoundsAssumption DEF TypeOK, RowType
    <3> QED
      BY <2>3, <3>1 DEF Names, Present
  <2> QED
    BY <1>1, <2>1, <2>2, <2>3 DEF Moves, DraftStep
<1> QED
  BY <1>2, <1>3 DEF Remembered

\* Whoever remembers the revision in force remembers the configuration in force: no
\* check is evaluated against an old one and no edit overwrites a change that its
\* author did not see (repository.ts:94, 200, 234).
THEOREM RevisionsNameConfigs == Spec => []RevisionNamesConfig
<1>1. Init => Remembered
  BY DEF Init, Remembered, NoDraft
<1>2. TypeOK /\ Remembered => RevisionNamesConfig
  BY DEF Remembered, RevisionNamesConfig, Names, DraftIsCurrent, Present
<1> QED
  BY <1>1, <1>2, RememberedStep, TypeCorrect, PTL DEF Spec

(****************************** the cadence ********************************)

\* A whole number of intervals later is on the same grid.
LEMMA NextSlotOnGrid ==
    ASSUME NEW s \in Nat, NEW f \in Nat, NEW i \in Nat \ {0}
    PROVE  (NextSlot(s, f, i) - s) % i = 0
<1> DEFINE passed == (f - s) \div i + 1
           k == IF passed < 1 THEN 1 ELSE passed
<1>1. k \in Nat
  OBVIOUS
<1>2. NextSlot(s, f, i) = s + k * i
  BY DEF NextSlot
<1> HIDE DEF k
<1>3. k * i \in Int /\ (k * i) % i = 0
  BY <1>1
<1> QED
  BY <1>2, <1>3

\* The clock only moves forward.
LEMMA TimeStep == TypeOK /\ [Next]_vars => now' \in Nat /\ now <= now'
<1> SUFFICES ASSUME TypeOK, [Next]_vars PROVE now' \in Nat /\ now <= now'
  OBVIOUS
<1>1. now \in Nat
  BY BoundsAssumption DEF TypeOK
<1>2. \A w \in Workers : Claiming(w) \/ Crash(w) => now' = now
  BY DEF Claiming, ClaimDue, Crash
<1>3. ASSUME NEW w \in Workers, Working(w) PROVE now' = now
  BY <1>3 DEF Working, Commit, Discard, Interrupt, Fail, ReleaseError
<1>4. ASSUME NEW m \in Monitors, Operating(m) PROVE now' = now
  BY <1>4 DEF Operating, CreateMonitor, SetEnabled, UpdateTiming, CheckNow
<1>5. ASSUME NEW cl \in Clients, Editing(cl) PROVE now' = now
  BY <1>5 DEF Editing, Inspect, UpdateMonitor, DeleteMonitor
<1>6. /\ \A t \in Tokens : Acknowledge(t) => now' = now
      /\ \A j \in jobs : RouteJob(j) => now' = now
      /\ UNCHANGED vars => now' = now
  BY DEF Acknowledge, RouteJob, vars
<1>7. Tick => now' = now + 1
  BY DEF Tick
<1> QED
  BY <1>1, <1>2, <1>3, <1>4, <1>5, <1>6, <1>7 DEF Next

\* Every step keeps the lease of a claim tied to the slot and the revision it was made for.
LEMMA LeasedStep == TypeOK /\ RunningIffLeased /\ Leased /\ [Next]_vars => Leased'
<1> SUFFICES ASSUME TypeOK, RunningIffLeased, Leased, [Next]_vars PROVE Leased'
  OBVIOUS
<1>1. Moves /\ now <= now' /\ now' \in Nat
  BY StepMoves, TimeStep
<1>2. ASSUME NEW w \in Workers, NEW new \in held'[w]
      PROVE  /\ runs'[new.token].status # "UNISSUED"
             /\ monitors'[new.monitor].token = new.token =>
                    monitors'[new.monitor].next = new.scheduledAt
  <2>1. CASE \E claim \in held[w] : new = claim \/ new = [claim EXCEPT !.pc = "RELEASE"]
    <3>1. PICK claim \in held[w] : new = claim \/ new = [claim EXCEPT !.pc = "RELEASE"]
      BY <2>1
    <3>2. claim \in ClaimType
      BY DEF TypeOK
    <3>3. /\ new.monitor = claim.monitor /\ new.token = claim.token
          /\ new.scheduledAt = claim.scheduledAt
          /\ claim.monitor \in Monitors /\ claim.token \in Tokens
      BY <3>1, <3>2 DEF ClaimType
    <3>4. /\ runs[claim.token].status # "UNISSUED"
          /\ monitors[claim.monitor].token = claim.token =>
                 monitors[claim.monitor].next = claim.scheduledAt
      BY DEF Leased
    <3>5. LeaseStep(claim.monitor) /\ RunStep(claim.token)
      BY <1>1, <3>3 DEF Moves
    <3>6. runs'[claim.token].status # "UNISSUED"
      BY <3>4, <3>5 DEF RunStep
    <3>7. ASSUME monitors'[claim.monitor].token = claim.token
          PROVE  monitors'[claim.monitor].next = claim.scheduledAt
      BY <3>3, <3>4, <3>5, <3>7, NoneAssumption DEF LeaseStep, Unissued
    <3> QED
      BY <3>3, <3>6, <3>7
  <2>2. CASE \E m \in Monitors, t \in Tokens :
               /\ new = Claim(m, t) /\ runs'[t].status = "RUNNING"
               /\ monitors'[m].next = monitors[m].next
    BY <2>2 DEF Claim
  <2> QED
    BY <1>1, <2>1, <2>2 DEF Moves, HeldStep
<1>3. ASSUME NEW m \in Monitors, monitors'[m].token # None
      PROVE  /\ monitors'[m].next <= now'
             /\ runs'[monitors'[m].token].revision = monitors'[m].revision
  <2>0. now \in Nat /\ now' \in Nat /\ monitors[m].next \in Nat
    BY <1>1, BoundsAssumption DEF TypeOK, RowType
  <2>1. CASE monitors'[m].token = monitors[m].token /\ monitors'[m].next = monitors[m].next
             /\ monitors'[m].revision = monitors[m].revision
    <3> DEFINE t == monitors[m].token
    <3>1. t \in Tokens /\ t # None
      BY <1>3, <2>1 DEF TypeOK, RowType
    <3>2. runs[t].status = "RUNNING"
      BY <3>1 DEF RunningIffLeased, Running
    <3>3. runs'[t].revision = runs[t].revision
      BY <1>1, <3>1, <3>2 DEF Moves, RunStep
    <3>4. monitors[m].next <= now /\ runs[t].revision = monitors[m].revision
      BY <3>1 DEF Leased
    <3>5. monitors'[m].next <= now'
      BY <1>1, <2>0, <2>1, <3>4
    <3> QED
      BY <2>1, <3>3, <3>4, <3>5
  <2>2. CASE /\ monitors'[m].next = monitors[m].next /\ monitors[m].next <= now
             /\ runs'[monitors'[m].token].revision = monitors'[m].revision
    BY <1>1, <2>0, <2>2
  <2> QED
    BY <1>1, <1>3, <2>1, <2>2 DEF Moves, LeaseStep
<1> QED
  BY <1>2, <1>3 DEF Leased

\* Leases and claims agree in every reachable state.
LEMMA LeasedHolds == Spec => []Leased
<1>1. Init => Leased
  BY DEF Init, Leased, NoRow
<1> QED
  BY <1>1, LeasedStep, TypeCorrect, LeasesAndRunsAgree, PTL DEF Spec

\* Only a commit completes a run, and it is the commit of the claim that holds its lease.
LEMMA CompletedByCommit ==
    ASSUME TypeOK, RunningIffLeased, Next, NEW t \in Tokens,
           runs[t].status = "RUNNING", runs'[t].status = "COMPLETED"
    PROVE  \E w \in Workers : \E claim \in held[w] :
               /\ claim.token = t /\ Current(claim)
               /\ \E results, answered : Commit(w, claim, results, answered)
<1> USE DEF Present
<1>1. ASSUME NEW ts, NEW status \in {"ERROR", "ABANDONED"}, runs' = RunsEnded(ts, status)
      PROVE  FALSE
  BY <1>1 DEF RunsEnded, TypeOK, RunType
<1>2. ASSUME NEW w \in Workers, NEW at \in 1..now, NEW S \in SUBSET Monitors,
             NEW token \in FreshTokens(S), NEW reached \in BOOLEAN,
             ClaimDue(w, at, S, token, reached)
      PROVE  FALSE
  <2> DEFINE ended == RunsEnded({monitors[m].token : m \in S}, "ABANDONED")
  <2>1. ~ \E m \in S : token[m] = t
    BY DEF FreshTokens, Unissued
  <2>2. runs'[t] = ended[t]
    BY <1>2, <2>1 DEF ClaimDue
  <2>3. ended[t].status # "COMPLETED"
    BY DEF RunsEnded, TypeOK, RunType
  <2> QED
    BY <2>2, <2>3
<1>3. ASSUME NEW w \in Workers, NEW claim \in held[w],
             NEW results, NEW answered, Commit(w, claim, results, answered)
      PROVE  claim.token = t /\ Current(claim)
  BY <1>3 DEF Commit, TypeOK, RunType
<1>4. ASSUME NEW w \in Workers, NEW claim \in held[w], Fail(w, claim) PROVE FALSE
  BY <1>1, <1>4 DEF Fail
<1>5. ASSUME NEW m \in Monitors,
             \/ \E enabled \in BOOLEAN : SetEnabled(m, enabled)
             \/ \E c \in Configs : UpdateTiming(m, c)
      PROVE  FALSE
  BY <1>1, <1>5 DEF SetEnabled, UpdateTiming, AbandonRun
<1>6. ASSUME NEW cl \in Clients, (\E c \in Configs : UpdateMonitor(cl, c)) \/ DeleteMonitor(cl)
      PROVE  FALSE
  <2>1. CASE DeleteMonitor(cl)
    BY <2>1 DEF DeleteMonitor, TypeOK, RunType
  <2>2. CASE \E c \in Configs : UpdateMonitor(cl, c)
    BY <1>1, <2>2 DEF UpdateMonitor, AbandonRun
  <2> QED
    BY <1>6, <2>1, <2>2
<1>7. runs' # runs
  OBVIOUS
<1>8. /\ \A w \in Workers : \A claim \in held[w] :
             ~Discard(w, claim) /\ ~Interrupt(w, claim) /\ ~ReleaseError(w, claim)
      /\ \A w \in Workers : ~Crash(w)
      /\ \A m \in Monitors : /\ ~CheckNow(m)
                             /\ \A c \in Configs : \A delay : ~CreateMonitor(m, c, delay)
      /\ \A cl \in Clients, m \in Monitors : ~Inspect(cl, m)
      /\ \A x \in Tokens : ~Acknowledge(x)
      /\ \A j \in jobs : ~RouteJob(j)
      /\ ~Tick
  BY <1>7 DEF Discard, Interrupt, ReleaseError, Crash, CheckNow, CreateMonitor, Inspect,
              Acknowledge, RouteJob, Tick
<1> QED
  BY <1>2, <1>3, <1>4, <1>5, <1>6, <1>8 DEF Next, Claiming, Working, Operating, Editing

\* After a check a monitor is due at the first slot of its cadence that is still to come.
THEOREM ChecksKeepCadence == Spec => RecheckOnCadence
<1> DEFINE OnCadence ==
        \A t \in Tokens : runs[t].status = "RUNNING" /\ runs'[t].status = "COMPLETED" =>
           LET m    == runs[t].monitor
               next == monitors'[m].next
               interval == monitors[m].config.interval
           IN  /\ now < next /\ next <= now + interval
               /\ (next - monitors[m].next) % interval = 0
<1>1. TypeOK /\ RunningIffLeased /\ RevisionNamesConfig /\ Leased /\ [Next]_vars
         => [OnCadence]_vars
  <2> SUFFICES ASSUME TypeOK, RunningIffLeased, RevisionNamesConfig, Leased, Next,
                      NEW t \in Tokens,
                      runs[t].status = "RUNNING", runs'[t].status = "COMPLETED"
               PROVE  LET m    == runs[t].monitor
                          next == monitors'[m].next
                          interval == monitors[m].config.interval
                      IN  /\ now < next /\ next <= now + interval
                          /\ (next - monitors[m].next) % interval = 0
    OBVIOUS
  <2>0. PICK w \in Workers : \E claim \in held[w] :
             /\ claim.token = t /\ Current(claim)
             /\ \E results, answered : Commit(w, claim, results, answered)
    BY CompletedByCommit
  <2>1. PICK claim \in held[w] :
             /\ claim.token = t /\ Current(claim)
             /\ \E results, answered : Commit(w, claim, results, answered)
    BY <2>0
  <2> DEFINE m == claim.monitor
             interval == claim.config.interval
  <2>2. claim \in ClaimType /\ m \in Monitors /\ claim.config \in Configs
        /\ claim.scheduledAt \in Nat /\ interval \in Nat \ {0} /\ now \in Nat
    BY BoundsAssumption, ConfigsAssumption DEF TypeOK, ClaimType
  <2>3. monitors[m].token = t /\ monitors[m].phase = "PRESENT"
        /\ monitors[m].revision = claim.revision
    BY <2>1 DEF Current
  <2>4. runs[t].monitor = m
    BY <2>2, <2>3, NoneAssumption DEF RunningIffLeased
  <2>5. monitors[m].config = claim.config
    BY <2>2, <2>3 DEF RevisionNamesConfig
  <2>6. monitors[m].next = claim.scheduledAt /\ monitors[m].next <= now
    BY <2>1, <2>2, <2>3, NoneAssumption DEF Leased
  <2>7. monitors'[m].next = NextSlot(claim.scheduledAt, now, interval)
    BY <2>1, <2>2 DEF Commit, Released, TypeOK, RowType
  <2>8. /\ now < monitors'[m].next /\ monitors'[m].next <= now + interval
        /\ (monitors'[m].next - monitors[m].next) % interval = 0
    <3> HIDE DEF interval
    <3>1. /\ NextSlot(claim.scheduledAt, now, interval) \in Nat
          /\ NextSlot(claim.scheduledAt, now, interval) > now
          /\ NextSlot(claim.scheduledAt, now, interval) <= now + interval
      BY <2>2, <2>6, NextSlotIsTheFirst
    <3> QED
      BY <2>2, <2>6, <2>7, <3>1, NextSlotOnGrid
  <2> QED
    BY <2>4, <2>5, <2>8
<1> QED
  BY <1>1, TypeCorrect, LeasesAndRunsAgree, RevisionsNameConfigs, LeasedHolds, PTL
     DEF Spec, RecheckOnCadence

(******************************* streaks ***********************************)

\* The streaks of a state are within the thresholds of a configuration.
Within(s, c) ==
    /\ s.failures <= c.failureThreshold /\ s.successes <= c.recoveryThreshold
    /\ s.candidateCount < c.changeThreshold

\* A check stops counting at the thresholds it is evaluated with.
LEMMA EvaluateWithin ==
    ASSUME NEW c \in Configs, NEW s \in StateType, NEW results, NEW t, Within(s, c)
    PROVE  Within(Evaluate(c, s, results, t), c)
<1> DEFINE o == Consensus(c, results)
<1>1. /\ c.failureThreshold \in Nat \ {0} /\ c.recoveryThreshold \in Nat \ {0}
      /\ c.changeThreshold \in Nat \ {0}
      /\ s.failures \in Nat /\ s.successes \in Nat /\ s.candidateCount \in Nat
  BY ConfigsAssumption DEF StateType
<1>2. Within(AfterFailure(c, s), c)
  <2>1. /\ AfterFailure(c, s).failures = AtMost(s.failures + 1, c.failureThreshold)
        /\ AfterFailure(c, s).successes = 0 /\ AfterFailure(c, s).candidateCount = 0
    BY DEF AfterFailure, StateType
  <2>2. AtMost(s.failures + 1, c.failureThreshold) <= c.failureThreshold
    BY <1>1 DEF AtMost
  <2> QED
    BY <1>1, <2>1, <2>2 DEF Within
<1>3. ASSUME NEW u, Within(u, c), DOMAIN u = DOMAIN s, u.candidateCount \in Nat
      PROVE  /\ Within(Watched(c, u, o.value), c)
             /\ DOMAIN Watched(c, u, o.value) = DOMAIN s
  <2> DEFINE n == CandidateRun(u, o.value)
  <2>0. DOMAIN s = {"status", "failures", "successes", "incidentOpen", "baseline", "candidate",
                    "candidateCount", "lastCheckedAt"}
    BY DEF StateType
  <2>1. n \in Nat
    BY <1>3 DEF CandidateRun
  <2> HIDE DEF n, o
  <2>2. ASSUME NEW k, k < c.changeThreshold, NEW x, NEW y
        PROVE  /\ Within([u EXCEPT !.candidate = y, !.candidateCount = k], c)
               /\ Within([u EXCEPT !.baseline = x, !.candidate = y, !.candidateCount = k], c)
    BY <1>3, <2>0, <2>2 DEF Within
  <2>3. 0 < c.changeThreshold /\ (~(n >= c.changeThreshold) => n < c.changeThreshold)
    BY <1>1, <2>1
  <2>4. Within([u EXCEPT !.candidate = NoValue, !.candidateCount = 0], c)
    BY <2>2, <2>3
  <2>5. Within([u EXCEPT !.baseline = o.value, !.candidate = NoValue, !.candidateCount = 0], c)
    BY <2>2, <2>3
  <2>6. n < c.changeThreshold => Within([u EXCEPT !.candidate = o.value, !.candidateCount = n], c)
    BY <2>2
  <2>7. Watched(c, u, o.value) =
           IF u.baseline = o.value
           THEN [u EXCEPT !.candidate = NoValue, !.candidateCount = 0]
           ELSE IF n >= c.changeThreshold
           THEN [u EXCEPT !.baseline = o.value, !.candidate = NoValue, !.candidateCount = 0]
           ELSE [u EXCEPT !.candidate = o.value, !.candidateCount = n]
    BY DEF Watched, n
  <2>8. Within(Watched(c, u, o.value), c)
    BY <2>3, <2>4, <2>5, <2>6, <2>7
  <2>9. DOMAIN Watched(c, u, o.value) = DOMAIN s
    BY <1>3, <2>7
  <2> QED
    BY <2>8, <2>9
<1>4. Within(AfterSuccess(c, s, o), c)
  <2> DEFINE successes == AtMost(s.successes + 1, c.recoveryThreshold)
             open == s.incidentOpen /\ successes < c.recoveryThreshold
             counted == [s EXCEPT !.failures = 0, !.successes = successes, !.incidentOpen = open]
             watched == IF c.mode = "WATCH" THEN Watched(c, counted, o.value) ELSE counted
  <2>1. successes <= c.recoveryThreshold
    BY <1>1 DEF AtMost
  <2> HIDE DEF successes, o, open
  <2>2. Within(counted, c) /\ DOMAIN counted = DOMAIN s /\ counted.candidateCount \in Nat
    BY <1>1, <2>1 DEF Within, StateType
  <2> HIDE DEF counted
  <2>3. Within(watched, c) /\ DOMAIN watched = DOMAIN s
    BY <2>2, <1>3 DEF o
  <2> HIDE DEF watched
  <2>4. AfterSuccess(c, s, o) =
            [watched EXCEPT !.status = SettledStatus(c, watched, o.degraded)]
    BY DEF AfterSuccess, watched, counted, successes, open
  <2>5. ASSUME NEW status PROVE Within([watched EXCEPT !.status = status], c)
    BY <2>3 DEF Within, StateType
  <2> QED
    BY <2>4, <2>5
<1>5. ASSUME NEW u, Within(u, c) PROVE Within([u EXCEPT !.lastCheckedAt = t], c)
  BY <1>5 DEF Within
<1> QED
  BY <1>2, <1>4, <1>5 DEF Evaluate

\* A reset starts all streaks again, and a fresh state has none.
LEMMA NoStreaks ==
    /\ \A s \in StateType : /\ ResetStreaks(s).failures = 0 /\ ResetStreaks(s).successes = 0
                            /\ ResetStreaks(s).candidate = NoValue
                            /\ ResetStreaks(s).candidateCount = 0
    /\ Fresh.state.failures = 0 /\ Fresh.state.successes = 0
    /\ Fresh.state.candidate = NoValue /\ Fresh.state.candidateCount = 0
  BY DEF ResetStreaks, StateType, Fresh, InitialState

\* The streaks of one monitor, for StreaksAreCurrent.
Counted(m) ==
    Present(m) =>
        /\ Within(states[m].state, monitors[m].config)
        /\ ~monitors[m].enabled => /\ states[m].state.failures = 0
                                   /\ states[m].state.successes = 0
                                   /\ states[m].state.candidate = NoValue

\* A monitor whose streaks are zero is within any thresholds.
LEMMA CountedFromZero ==
    ASSUME NEW m \in Monitors, TypeOK',
           states'[m].state.failures = 0, states'[m].state.successes = 0,
           states'[m].state.candidate = NoValue, states'[m].state.candidateCount = 0
    PROVE  Counted(m)'
<1> SUFFICES ASSUME Present(m)'
             PROVE  Within(states'[m].state, monitors'[m].config)
  BY DEF Counted, Within
<1>1. monitors'[m].config \in Configs
  BY DEF TypeOK
<1> QED
  BY <1>1, ConfigsAssumption DEF Within

\* A monitor that keeps its phase, configuration, switch and state keeps its streaks.
LEMMA CountedKept ==
    ASSUME NEW m \in Monitors, Counted(m), states'[m] = states[m],
           monitors'[m].phase = monitors[m].phase, monitors'[m].config = monitors[m].config,
           monitors'[m].enabled = monitors[m].enabled
    PROVE  Counted(m)'
  BY DEF Counted, Present, Within

\* Every step keeps the streaks within the thresholds that it leaves in force.
LEMMA StreaksStep ==
    TypeOK /\ TypeOK' /\ RevisionNamesConfig /\ StreaksAreCurrent /\ [Next]_vars
        => StreaksAreCurrent'
<1> SUFFICES ASSUME TypeOK, TypeOK', RevisionNamesConfig, [Next]_vars,
                    \A m \in Monitors : Counted(m)
             PROVE  \A m \in Monitors : Counted(m)'
  BY DEF StreaksAreCurrent, Counted, Within
<1>1. ASSUME NEW m \in Monitors, NEW c \in Configs, NEW delay \in 0..(c.interval - 1),
             CreateMonitor(m, c, delay)
      PROVE  \A n \in Monitors : Counted(n)'
  <2>1. states'[m] = Fresh
    BY <1>1 DEF CreateMonitor, TypeOK
  <2>2. Counted(m)'
    BY <2>1, NoStreaks, CountedFromZero
  <2>3. \A n \in Monitors \ {m} : states'[n] = states[n] /\ monitors'[n] = monitors[n]
    BY <1>1 DEF CreateMonitor, TypeOK
  <2> QED
    BY <2>2, <2>3, CountedKept
<1>2. ASSUME NEW w \in Workers, NEW at \in 1..now, NEW S \in SUBSET Monitors,
             NEW token \in FreshTokens(S), NEW reached \in BOOLEAN,
             ClaimDue(w, at, S, token, reached)
      PROVE  \A n \in Monitors : Counted(n)'
  <2> SUFFICES ASSUME NEW n \in Monitors PROVE Counted(n)'
    OBVIOUS
  <2> DEFINE row == monitors[n]
             leased == [row EXCEPT !.token = token[n], !.lease = LeaseEnd(row.config, at)]
  <2>1. monitors'[n] \in {row, leased} /\ states'[n] = states[n] /\ row \in RowType
    BY <1>2 DEF ClaimDue, TypeOK
  <2>2. leased.phase = row.phase /\ leased.config = row.config /\ leased.enabled = row.enabled
    <3>1. row \in RowType
      BY <2>1
    <3> HIDE DEF row
    <3> QED
      BY <3>1 DEF RowType
  <2> HIDE DEF leased
  <2> QED
    BY <2>1, <2>2, CountedKept
<1>3. ASSUME NEW w \in Workers, NEW claim \in held[w],
             NEW results \in [claim.config.resolvers -> Answers], NEW answered \in BOOLEAN,
             Commit(w, claim, results, answered)
      PROVE  \A n \in Monitors : Counted(n)'
  <2> DEFINE m == claim.monitor
             next == NextSlot(claim.scheduledAt, now, claim.config.interval)
  <2>1. claim \in ClaimType /\ m \in Monitors /\ claim.config \in Configs
        /\ states[m].state \in StateType /\ monitors[m] \in RowType
    BY DEF TypeOK, ClaimType
  <2>2. monitors[m].config = claim.config /\ monitors[m].phase = "PRESENT" /\ monitors[m].enabled
    BY <1>3, <2>1 DEF Commit, Current, RevisionNamesConfig
  <2>3. monitors'[m] = Released(monitors[m], next)
        /\ states'[m].state = Outcome(claim, results)
    BY <1>3, <2>1 DEF Commit, TypeOK
  <2>4. monitors'[m].config = claim.config /\ monitors'[m].enabled
    BY <2>1, <2>2, <2>3, ReleasedKeeps
  <2>5. Within(states[m].state, claim.config)
    BY <2>1, <2>2 DEF Counted, Present
  <2>6. Within(Outcome(claim, results), claim.config)
    BY <2>1, <2>5, EvaluateWithin DEF Outcome
  <2>7. Counted(m)'
    BY <2>3, <2>4, <2>6 DEF Counted
  <2>8. \A n \in Monitors \ {m} : states'[n] = states[n] /\ monitors'[n] = monitors[n]
    BY <1>3 DEF Commit, TypeOK
  <2> QED
    BY <2>7, <2>8, CountedKept
<1>4. ASSUME NEW w \in Workers, NEW claim \in held[w], Fail(w, claim)
      PROVE  \A n \in Monitors : Counted(n)'
  <2> SUFFICES ASSUME NEW n \in Monitors PROVE Counted(n)'
    OBVIOUS
  <2>1. states'[n] = states[n] /\ monitors[n] \in RowType
        /\ monitors'[n] \in {monitors[n], Released(monitors[n], now + RetryDelay)}
    BY <1>4 DEF Fail, TypeOK
  <2> QED
    BY <2>1, ReleasedKeeps, CountedKept
<1>5. ASSUME NEW m \in Monitors,
             \/ \E enabled \in BOOLEAN : SetEnabled(m, enabled)
             \/ \E c \in Configs : UpdateTiming(m, c)
      PROVE  \A n \in Monitors : Counted(n)'
  <2>1. states[m].state \in StateType /\ states'[m].state = ResetStreaks(states[m].state)
    BY <1>5 DEF SetEnabled, UpdateTiming, TypeOK
  <2>2. Counted(m)'
    BY <2>1, NoStreaks, CountedFromZero
  <2>3. \A n \in Monitors \ {m} : states'[n] = states[n] /\ monitors'[n] = monitors[n]
    BY <1>5 DEF SetEnabled, UpdateTiming, TypeOK
  <2> QED
    BY <2>2, <2>3, CountedKept
<1>6. ASSUME NEW m \in Monitors, CheckNow(m)
      PROVE  \A n \in Monitors : Counted(n)'
  <2> SUFFICES ASSUME NEW n \in Monitors PROVE Counted(n)'
    OBVIOUS
  <2>1. states'[n] = states[n] /\ monitors[n] \in RowType
    BY <1>6 DEF CheckNow, TypeOK
  <2>2. CASE monitors'[n] = monitors[n]
    BY <2>1, <2>2, CountedKept
  <2>3. CASE monitors'[n] = [monitors[n] EXCEPT !.next = now]
    <3>1. /\ monitors'[n].phase = monitors[n].phase /\ monitors'[n].config = monitors[n].config
          /\ monitors'[n].enabled = monitors[n].enabled
      BY <2>1, <2>3, DueKeeps
    <3> QED
      BY <2>1, <3>1, CountedKept
  <2> QED
    BY <1>6, <2>2, <2>3 DEF CheckNow, TypeOK
<1>7. ASSUME NEW cl \in Clients, NEW c \in Configs, UpdateMonitor(cl, c)
      PROVE  \A n \in Monitors : Counted(n)'
  <2> DEFINE m == drafts[cl].monitor
             row == monitors[m]
             changed == QueryIdentity(c) # QueryIdentity(row.config)
             retimed == Timing(c) # Timing(row.config)
             after == CASE changed -> Fresh
                        [] ~changed /\ retimed -> [states[m] EXCEPT !.state = ResetStreaks(@)]
                        [] OTHER -> states[m]
             edited == [Edited(row) EXCEPT !.config = c,
                           !.history = IF changed THEN row.revision + 1 ELSE row.history]
  <2>1. /\ m \in Monitors /\ row \in RowType /\ row.phase = "PRESENT"
        /\ states[m] \in [state : StateType, active : Tokens \cup {None}]
    BY <1>7 DEF UpdateMonitor, DraftIsCurrent, Present, TypeOK, DraftType
  <2>2. states' = [states EXCEPT ![m] = after] /\ monitors' = [monitors EXCEPT ![m] = edited]
    BY <1>7 DEF UpdateMonitor
  <2>3. edited.config = c /\ edited.enabled = row.enabled /\ edited.phase = "PRESENT"
    <3>1. ASSUME NEW r \in RowType, NEW h
          PROVE  LET new == [Edited(r) EXCEPT !.config = c, !.history = h]
                 IN  new.config = c /\ new.enabled = r.enabled /\ new.phase = r.phase
      BY DEF Edited, Released, RowType
    <3> HIDE DEF row, changed
    <3> QED
      BY <2>1, <3>1
  <2>4. /\ changed => after = Fresh
        /\ ~changed /\ retimed => after.state = ResetStreaks(states[m].state)
        /\ ~changed /\ ~retimed => after = states[m]
    BY <2>1
  <2>5. ~retimed => /\ c.failureThreshold = row.config.failureThreshold
                    /\ c.recoveryThreshold = row.config.recoveryThreshold
                    /\ c.changeThreshold = row.config.changeThreshold
    BY DEF Timing
  <2>6. ASSUME NEW n \in Monitors, n = m PROVE Counted(n)'
    <3>1. states'[n] = after /\ monitors'[n] = edited
      BY <2>1, <2>2, <2>6 DEF TypeOK
    <3>2. states[n].state \in StateType
      BY <2>1, <2>6
    <3>3. CASE changed \/ retimed
      <4>1. states'[n].state \in {Fresh.state, ResetStreaks(states[n].state)}
        <5> HIDE DEF changed, retimed, after, edited
        <5> QED
          BY <2>4, <2>6, <3>1, <3>3
      <4> QED
        BY <3>2, <4>1, NoStreaks, CountedFromZero
    <3>4. CASE ~changed /\ ~retimed
      <4>1. Within(states[n].state, row.config)
            /\ (~row.enabled => /\ states[n].state.failures = 0
                                /\ states[n].state.successes = 0
                                /\ states[n].state.candidate = NoValue)
        BY <2>1, <2>6 DEF Counted, Present
      <4>2. Within(states[n].state, c)
        BY <2>5, <3>4, <4>1 DEF Within
      <4>3. states'[n] = states[n]
        BY <2>4, <2>6, <3>1, <3>4
      <4> HIDE DEF row, edited, after
      <4> QED
        BY <2>3, <3>1, <4>1, <4>2, <4>3 DEF Counted
    <3> QED
      BY <3>3, <3>4
  <2>7. \A n \in Monitors : n # m => states'[n] = states[n] /\ monitors'[n] = monitors[n]
    BY <2>1, <2>2 DEF TypeOK
  <2> QED
    BY <2>6, <2>7, CountedKept
<1>8. ASSUME NEW cl \in Clients, DeleteMonitor(cl)
      PROVE  \A n \in Monitors : Counted(n)'
  <2>1. \A n \in Monitors : states'[n] = Fresh
                            \/ (states'[n] = states[n] /\ monitors'[n] = monitors[n])
    BY <1>8 DEF DeleteMonitor, TypeOK
  <2> QED
    BY <2>1, NoStreaks, CountedFromZero, CountedKept
<1>9. CASE \/ \E w \in Workers : \E claim \in held[w] :
                 Discard(w, claim) \/ Interrupt(w, claim) \/ ReleaseError(w, claim)
           \/ \E cl \in Clients, m \in Monitors : Inspect(cl, m)
           \/ \E t \in Tokens : Acknowledge(t)
           \/ \E j \in jobs : RouteJob(j)
           \/ \E w \in Workers : Crash(w)
           \/ Tick
           \/ UNCHANGED vars
  <2>1. monitors' = monitors /\ states' = states
    BY <1>9 DEF Discard, Interrupt, ReleaseError, Inspect, Acknowledge, RouteJob, Crash, Tick, vars
  <2> QED
    BY <2>1, CountedKept
<1> QED
  BY <1>1, <1>2, <1>3, <1>4, <1>5, <1>6, <1>7, <1>8, <1>9
     DEF Next, Claiming, Working, Operating, Editing

\* The streaks never pass the thresholds in force, whatever edits lower them, and a
\* paused monitor has none (repository.ts:142-146, 188, 217).
THEOREM StreaksFollowThresholds == Spec => []StreaksAreCurrent
<1>1. Init => StreaksAreCurrent
  BY DEF Init, StreaksAreCurrent, Present, NoRow
<1> QED
  BY <1>1, StreaksStep, TypeCorrect, RevisionsNameConfigs, PTL DEF Spec

(*************************** the old question ******************************)

\* No step moves the beginning of a history past the revision in force.
LEMMA HistoryStep == TypeOK /\ HistoryBegun /\ [Next]_vars => HistoryBegun'
<1> SUFFICES ASSUME TypeOK, HistoryBegun, [Next]_vars, NEW m \in Monitors
             PROVE  monitors'[m].history <= monitors'[m].revision
  BY DEF HistoryBegun
<1>1. RowStep(m) /\ monitors[m].history <= monitors[m].revision
  BY StepMoves DEF Moves, HistoryBegun
<1>2. monitors[m].history \in Nat /\ monitors[m].revision \in Nat
  BY BoundsAssumption DEF TypeOK, RowType
<1>3. [NoRow EXCEPT !.phase = "DELETED"].history = 0 /\ [NoRow EXCEPT !.phase = "DELETED"].revision = 0
  BY DEF NoRow
<1>4. CASE monitors'[m] = [NoRow EXCEPT !.phase = "DELETED"]
  <2>1. monitors'[m].history = 0 /\ monitors'[m].revision = 0
    BY <1>3, <1>4
  <2> QED
    BY <2>1
<1>5. CASE ~(monitors'[m] = [NoRow EXCEPT !.phase = "DELETED"])
  BY <1>1, <1>2, <1>5 DEF RowStep
<1> QED
  BY <1>4, <1>5

\* Jobs that come from jobs of monitors that stay, and that are still to be routed only
\* if the history of their monitor did not move, are about that history.
LEMMA JobsKept ==
    ASSUME JobsSilent,
           \A new \in jobs' : \E j \in jobs :
               /\ new.event = j.event
               /\ monitors[j.event.monitor].phase = "PRESENT"
                      => monitors'[j.event.monitor].phase = "PRESENT"
               /\ new.status = "PENDING" =>
                      /\ j.status = "PENDING"
                      /\ monitors'[j.event.monitor].history = monitors[j.event.monitor].history
    PROVE  JobsSilent'
<1> SUFFICES ASSUME NEW new \in jobs'
             PROVE  /\ monitors'[new.event.monitor].phase = "PRESENT"
                    /\ new.status = "PENDING" =>
                          new.event.revision >= monitors'[new.event.monitor].history
  BY DEF JobsSilent, Present
<1>1. PICK j \in jobs :
          /\ new.event = j.event
          /\ monitors[j.event.monitor].phase = "PRESENT"
                 => monitors'[j.event.monitor].phase = "PRESENT"
          /\ new.status = "PENDING" =>
                 /\ j.status = "PENDING"
                 /\ monitors'[j.event.monitor].history = monitors[j.event.monitor].history
  OBVIOUS
<1>2. /\ monitors[j.event.monitor].phase = "PRESENT"
      /\ j.status = "PENDING" => j.event.revision >= monitors[j.event.monitor].history
  BY DEF JobsSilent, Present
<1> QED
  BY <1>1, <1>2

\* Incidents that were not over, of monitors whose history did not move, are about it.
LEMMA AlarmsKept ==
    ASSUME IncidentInv, AlarmsSilent, [Next]_vars,
           \A t \in Tokens : Unresolved(t)' =>
               /\ Unresolved(t)
               /\ monitors'[runs[t].monitor].history = monitors[runs[t].monitor].history
    PROVE  AlarmsSilent'
<1> SUFFICES ASSUME NEW t \in Tokens, Unresolved(t)'
             PROVE  runs'[t].revision >= monitors'[runs'[t].monitor].history
  BY DEF AlarmsSilent
<1>1. Unresolved(t) /\ runs[t].monitor # None /\ runs[t].status # "UNISSUED"
  BY DEF IncidentInv, IncidentConsistent, LeaseInv, Blank
<1>2. RunStep(t)
  BY StepMoves DEF Moves, IncidentInv, LeaseInv
<1>3. runs'[t].monitor = runs[t].monitor /\ runs'[t].revision = runs[t].revision
  BY <1>1, <1>2 DEF RunStep
<1> QED
  BY <1>1, <1>3 DEF AlarmsSilent

\* A monitor that is not there has no incident that is not over.
LEMMA NoAlarm ==
    ASSUME IncidentInv, NEW t \in Tokens, Unresolved(t)
    PROVE  runs[t].monitor \in Monitors /\ monitors[runs[t].monitor].phase = "PRESENT"
<1>1. /\ runs[t].monitor # None /\ states[runs[t].monitor].active = t
      /\ runs[t].monitor \in Monitors
  BY DEF IncidentInv, IncidentConsistent, LeaseInv, TypeOK, RunType
<1> QED
  BY <1>1, NoneAssumption DEF IncidentInv, LeaseInv, Blank, Fresh

\* Steps that move neither phases nor histories, and neither route nor open anything.
LEMMA SilenceKept ==
    ASSUME IncidentInv, Silent, [Next]_vars, jobs' = jobs, incidents' = incidents,
           \A n \in Monitors : /\ monitors'[n].phase = monitors[n].phase
                               /\ monitors'[n].history = monitors[n].history
    PROVE  JobsSilent' /\ AlarmsSilent'
<1>1. \A j \in jobs : j.event.monitor \in Monitors
  BY DEF IncidentInv, LeaseInv, TypeOK, JobType, EventType
<1>2. JobsSilent'
  BY <1>1, JobsKept DEF Silent
<1>3. \A t \in Tokens : Unresolved(t)' => Unresolved(t) /\ runs[t].monitor \in Monitors
  BY NoAlarm DEF Unresolved
<1> QED
  BY <1>2, <1>3, AlarmsKept DEF Silent

\* What a commit announces is about the history in force.
LEMMA CommitSilent ==
    ASSUME IncidentInv, Leased, Silent, [Next]_vars,
           NEW w \in Workers, NEW claim \in held[w],
           NEW results \in [claim.config.resolvers -> Answers], NEW answered \in BOOLEAN,
           Commit(w, claim, results, answered)
    PROVE  JobsSilent' /\ AlarmsSilent'
<1> DEFINE m == claim.monitor
<1>1. claim \in ClaimType /\ m \in Monitors /\ claim.token \in Tokens /\ claim.token # None
  BY NoneAssumption DEF IncidentInv, LeaseInv, TypeOK, ClaimType
<1>2. /\ monitors[m].phase = "PRESENT" /\ monitors[m].token = claim.token
      /\ monitors[m].revision = claim.revision
  BY DEF Commit, Current
<1>3. \A n \in Monitors : /\ monitors'[n].phase = monitors[n].phase
                          /\ monitors'[n].history = monitors[n].history
  <2>1. monitors[m] \in RowType
        /\ monitors'[m] = Released(monitors[m], NextSlot(claim.scheduledAt, now, claim.config.interval))
        /\ \A n \in Monitors : n # m => monitors'[n] = monitors[n]
    BY <1>1 DEF Commit, IncidentInv, LeaseInv, TypeOK
  <2> QED
    BY <2>1, ReleasedKeeps
<1>4. monitors[m].history <= claim.revision
  BY <1>1, <1>2 DEF Silent, HistoryBegun
<1>5. ASSUME NEW new \in jobs'
      PROVE  /\ monitors'[new.event.monitor].phase = "PRESENT"
             /\ new.status = "PENDING" =>
                   new.event.revision >= monitors'[new.event.monitor].history
  <2>1. CASE new \in jobs
    <3>1. new.event.monitor \in Monitors
      BY <2>1 DEF IncidentInv, LeaseInv, TypeOK, JobType, EventType
    <3>2. /\ monitors[new.event.monitor].phase = "PRESENT"
          /\ new.status = "PENDING" =>
                new.event.revision >= monitors[new.event.monitor].history
      BY <2>1 DEF Silent, JobsSilent, Present
    <3> QED
      BY <1>3, <3>1, <3>2
  <2>2. CASE new \in NewJobs(claim, results)
    <3>1. new.event.monitor = m /\ new.event.revision = claim.revision
      BY <2>2 DEF NewJobs, NewEvents
    <3>2. claim.revision \in Nat /\ monitors[m].history \in Nat
      BY <1>1, BoundsAssumption DEF ClaimType, IncidentInv, LeaseInv, TypeOK, RowType
    <3> QED
      BY <1>1, <1>2, <1>3, <1>4, <3>1, <3>2
  <2> QED
    BY <2>1, <2>2 DEF Commit
<1>6. ASSUME NEW t \in Tokens, Unresolved(t)'
      PROVE  runs'[t].revision >= monitors'[runs'[t].monitor].history
  <2>1. /\ runs'[t].monitor = runs[t].monitor /\ runs'[t].revision = runs[t].revision
    BY <1>1 DEF Commit, IncidentInv, LeaseInv, TypeOK, RunType
  <2>2. CASE t = claim.token
    <3>1. runs[t].monitor = m /\ runs[t].revision = claim.revision
      BY <1>1, <1>2, <2>2 DEF IncidentInv, LeaseInv, RunningIffLeased, Leased
    <3>2. claim.revision \in Nat /\ monitors[m].history \in Nat
      BY <1>1, BoundsAssumption DEF ClaimType, IncidentInv, LeaseInv, TypeOK, RowType
    <3> QED
      BY <1>1, <1>3, <1>4, <2>1, <3>1, <3>2
  <2>3. CASE t # claim.token
    <3>1. Unresolved(t)
      BY <1>6, <2>3 DEF Commit, Unresolved
    <3>2. runs[t].monitor \in Monitors /\ runs[t].revision >= monitors[runs[t].monitor].history
      BY <3>1, NoAlarm DEF Silent, AlarmsSilent
    <3> QED
      BY <1>3, <2>1, <3>2
  <2> QED
    BY <2>2, <2>3
<1> QED
  BY <1>5, <1>6 DEF JobsSilent, AlarmsSilent, Present

\* An edit of what is asked withdraws the alerts and closes the incident of its monitor.
LEMMA EditSilent ==
    ASSUME IncidentInv, Silent, [Next]_vars,
           NEW cl \in Clients, NEW c \in Configs, UpdateMonitor(cl, c)
    PROVE  JobsSilent' /\ AlarmsSilent'
<1> DEFINE m == drafts[cl].monitor
           row == monitors[m]
           changed == QueryIdentity(c) # QueryIdentity(row.config)
           edited == [Edited(row) EXCEPT !.config = c,
                         !.history = IF changed THEN row.revision + 1 ELSE row.history]
<1>1. m \in Monitors /\ row \in RowType /\ row.phase = "PRESENT"
  BY DEF UpdateMonitor, DraftIsCurrent, Present, IncidentInv, LeaseInv, TypeOK, DraftType
<1>2. monitors' = [monitors EXCEPT ![m] = edited]
  BY DEF UpdateMonitor
<1>3. edited.phase = "PRESENT" /\ (~changed => edited.history = row.history)
  <2>1. ASSUME NEW r \in RowType, NEW h
        PROVE  LET new == [Edited(r) EXCEPT !.config = c, !.history = h]
               IN  new.phase = r.phase /\ new.history = h
    BY DEF Edited, Released, RowType
  <2> HIDE DEF row, changed
  <2> QED
    BY <1>1, <2>1
<1>4. \A n \in Monitors : /\ n # m => monitors'[n] = monitors[n]
                          /\ n = m => monitors'[n] = edited
  BY <1>2 DEF IncidentInv, LeaseInv, TypeOK
<1>5. \A j \in jobs : j.event.monitor \in Monitors /\ j = [event |-> j.event, status |-> j.status]
  BY DEF IncidentInv, LeaseInv, TypeOK, JobType, EventType
<1>6. CASE ~changed
  <2>1. jobs' = jobs /\ incidents' = incidents
    BY <1>6 DEF UpdateMonitor
  <2>2. \A n \in Monitors : /\ monitors'[n].phase = monitors[n].phase
                            /\ monitors'[n].history = monitors[n].history
    BY <1>1, <1>3, <1>4, <1>6
  <2> QED
    BY <2>1, <2>2, SilenceKept
<1>7. CASE changed
  <2>1. jobs' = Withdrawn(m) /\ incidents' = Closed(states[m].active)
    BY <1>7 DEF UpdateMonitor
  <2> HIDE DEF edited, changed, row
  <2>2. JobsSilent'
    <3>1. ASSUME NEW new \in jobs'
          PROVE  \E j \in jobs :
               /\ new.event = j.event
               /\ monitors[j.event.monitor].phase = "PRESENT"
                      => monitors'[j.event.monitor].phase = "PRESENT"
               /\ new.status = "PENDING" =>
                      /\ j.status = "PENDING"
                      /\ monitors'[j.event.monitor].history = monitors[j.event.monitor].history
      <4>1. PICK j \in jobs :
                new = IF j.event.monitor = m THEN [j EXCEPT !.status = "CANCELLED"] ELSE j
        BY <2>1 DEF Withdrawn
      <4>2. CASE j.event.monitor = m
        <5>1. new.event = j.event /\ new.status = "CANCELLED"
          BY <1>5, <4>1, <4>2
        <5> QED
          BY <1>1, <1>3, <1>4, <4>2, <5>1
      <4>3. CASE j.event.monitor # m
        BY <1>4, <1>5, <4>1, <4>3
      <4> QED
        BY <4>2, <4>3
    <3> QED
      BY <3>1, JobsKept DEF Silent
  <2>3. ASSUME NEW t \in Tokens, Unresolved(t)'
        PROVE  /\ Unresolved(t)
               /\ monitors'[runs[t].monitor].history = monitors[runs[t].monitor].history
    <3>1. Unresolved(t) /\ t # states[m].active
      <4> DEFINE active == states[m].active
      <4>1. active \in Tokens \cup {None} /\ t # None
        BY <1>1, NoneAssumption DEF IncidentInv, LeaseInv, TypeOK
      <4>2. /\ active # None => incidents' = [incidents EXCEPT ![active] = "CLOSED"]
            /\ active = None => incidents' = incidents
        BY <2>1 DEF Closed
      <4>3. incidents'[t] \in {"OPEN", "ACKNOWLEDGED"}
        BY <2>3 DEF Unresolved
      <4> HIDE DEF active
      <4>4. t # active /\ incidents'[t] = incidents[t]
        BY <4>1, <4>2, <4>3 DEF IncidentInv, LeaseInv, TypeOK
      <4> QED
        BY <4>3, <4>4 DEF Unresolved, active
    <3>2. runs[t].monitor \in Monitors /\ states[runs[t].monitor].active = t
      BY <3>1, NoAlarm DEF IncidentInv, IncidentConsistent
    <3> QED
      BY <1>4, <3>1, <3>2
  <2> QED
    BY <2>2, <2>3, AlarmsKept DEF Silent
<1> QED
  BY <1>6, <1>7

\* Every step keeps alerts and incidents about the history in force.
LEMMA SilentStep == IncidentInv /\ Leased /\ Silent /\ [Next]_vars => JobsSilent' /\ AlarmsSilent'
<1> SUFFICES ASSUME IncidentInv, Leased, Silent, [Next]_vars PROVE JobsSilent' /\ AlarmsSilent'
  OBVIOUS
<1>0. /\ TypeOK
      /\ \A j \in jobs : /\ j.event.monitor \in Monitors
                         /\ monitors[j.event.monitor].phase = "PRESENT"
      /\ \A t \in Tokens : Unresolved(t) =>
            runs[t].monitor \in Monitors /\ monitors[runs[t].monitor].phase = "PRESENT"
  BY NoAlarm DEF IncidentInv, LeaseInv, TypeOK, JobType, EventType, Silent, JobsSilent, Present
<1>1. ASSUME NEW m \in Monitors, NEW c \in Configs, NEW delay \in 0..(c.interval - 1),
             CreateMonitor(m, c, delay)
      PROVE  JobsSilent' /\ AlarmsSilent'
  <2>1. monitors[m].phase = "ABSENT" /\ \A n \in Monitors : n # m => monitors'[n] = monitors[n]
    BY <1>0, <1>1 DEF CreateMonitor, TypeOK
  <2>2. \A j \in jobs : monitors'[j.event.monitor] = monitors[j.event.monitor]
    BY <1>0, <2>1
  <2>3. \A t \in Tokens : Unresolved(t) => monitors'[runs[t].monitor] = monitors[runs[t].monitor]
    BY <1>0, <2>1
  <2>4. jobs' = jobs /\ \A t \in Tokens : Unresolved(t)' <=> Unresolved(t)
    BY <1>1 DEF CreateMonitor, Unresolved
  <2>5. JobsSilent'
    BY <2>2, <2>4, JobsKept DEF Silent
  <2> QED
    BY <2>3, <2>4, <2>5, AlarmsKept DEF Silent
<1>2. ASSUME NEW w \in Workers, NEW at \in 1..now, NEW S \in SUBSET Monitors,
             NEW token \in FreshTokens(S), NEW reached \in BOOLEAN,
             ClaimDue(w, at, S, token, reached)
      PROVE  JobsSilent' /\ AlarmsSilent'
  <2>1. ASSUME NEW n \in Monitors
        PROVE  /\ monitors'[n].phase = monitors[n].phase
               /\ monitors'[n].history = monitors[n].history
    <3>1. /\ monitors[n] \in RowType
          /\ monitors'[n] = IF n \in S
                THEN [monitors[n] EXCEPT !.token = token[n], !.lease = LeaseEnd(monitors[n].config, at)]
                ELSE monitors[n]
      BY <1>0, <1>2 DEF ClaimDue, TypeOK
    <3> QED
      BY <3>1 DEF RowType
  <2>2. jobs' = jobs /\ incidents' = incidents
    BY <1>2 DEF ClaimDue
  <2> QED
    BY <2>1, <2>2, SilenceKept
<1>3. ASSUME NEW w \in Workers, NEW claim \in held[w],
             NEW results \in [claim.config.resolvers -> Answers], NEW answered \in BOOLEAN,
             Commit(w, claim, results, answered)
      PROVE  JobsSilent' /\ AlarmsSilent'
  BY <1>3, CommitSilent
<1>4. ASSUME NEW w \in Workers, NEW claim \in held[w], Fail(w, claim)
      PROVE  JobsSilent' /\ AlarmsSilent'
  <2>1. ASSUME NEW n \in Monitors
        PROVE  /\ monitors'[n].phase = monitors[n].phase
               /\ monitors'[n].history = monitors[n].history
    <3>1. /\ monitors[n] \in RowType
          /\ monitors'[n] \in {monitors[n], Released(monitors[n], now + RetryDelay)}
      BY <1>0, <1>4 DEF Fail, TypeOK
    <3> QED
      BY <3>1, ReleasedKeeps
  <2>2. jobs' = jobs /\ incidents' = incidents
    BY <1>4 DEF Fail
  <2> QED
    BY <2>1, <2>2, SilenceKept
<1>5. ASSUME NEW m \in Monitors,
             \/ \E enabled \in BOOLEAN : SetEnabled(m, enabled)
             \/ \E c \in Configs : UpdateTiming(m, c)
      PROVE  JobsSilent' /\ AlarmsSilent'
  <2>1. ASSUME NEW row \in RowType, NEW x
        PROVE  /\ [Edited(row) EXCEPT !.enabled = x].phase = row.phase
               /\ [Edited(row) EXCEPT !.enabled = x].history = row.history
               /\ [Edited(row) EXCEPT !.config = x].phase = row.phase
               /\ [Edited(row) EXCEPT !.config = x].history = row.history
    BY DEF Edited, Released, RowType
  <2>2. /\ monitors'[m].phase = monitors[m].phase
        /\ monitors'[m].history = monitors[m].history
    <3>0. monitors[m] \in RowType
      BY <1>0 DEF TypeOK
    <3>1. ASSUME NEW x \in BOOLEAN, SetEnabled(m, x)
          PROVE  /\ monitors'[m].phase = monitors[m].phase
                 /\ monitors'[m].history = monitors[m].history
      <4>1. monitors'[m] = [Edited(monitors[m]) EXCEPT !.enabled = x]
        BY <1>0, <3>1 DEF SetEnabled, TypeOK
      <4> QED
        BY <2>1, <3>0, <4>1
    <3>2. ASSUME NEW c \in Configs, UpdateTiming(m, c)
          PROVE  /\ monitors'[m].phase = monitors[m].phase
                 /\ monitors'[m].history = monitors[m].history
      <4>1. monitors'[m] = [Edited(monitors[m]) EXCEPT !.config = c]
        BY <1>0, <3>2 DEF UpdateTiming, TypeOK
      <4> QED
        BY <2>1, <3>0, <4>1
    <3> QED
      BY <1>5, <3>1, <3>2
  <2>3. ASSUME NEW n \in Monitors
        PROVE  /\ monitors'[n].phase = monitors[n].phase
               /\ monitors'[n].history = monitors[n].history
    <3>1. CASE n # m
      <4>1. monitors'[n] = monitors[n]
        BY <1>0, <1>5, <3>1 DEF SetEnabled, UpdateTiming, TypeOK
      <4> QED
        BY <4>1
    <3>2. CASE n = m
      BY <2>2, <3>2
    <3> QED
      BY <3>1, <3>2
  <2>4. jobs' = jobs /\ incidents' = incidents
    BY <1>5 DEF SetEnabled, UpdateTiming
  <2> QED
    BY <2>3, <2>4, SilenceKept
<1>6. ASSUME NEW m \in Monitors, CheckNow(m)
      PROVE  JobsSilent' /\ AlarmsSilent'
  <2>1. ASSUME NEW n \in Monitors
        PROVE  /\ monitors'[n].phase = monitors[n].phase
               /\ monitors'[n].history = monitors[n].history
    <3>1. CASE monitors'[n] = monitors[n]
      BY <3>1
    <3>2. CASE monitors'[n] = [monitors[n] EXCEPT !.next = now]
      <4>1. monitors[n] \in RowType
        BY <1>0 DEF TypeOK
      <4> QED
        BY <3>2, <4>1, DueKeeps
    <3> QED
      BY <1>0, <1>6, <3>1, <3>2 DEF CheckNow, TypeOK
  <2>2. jobs' = jobs /\ incidents' = incidents
    BY <1>6 DEF CheckNow
  <2> QED
    BY <2>1, <2>2, SilenceKept
<1>7. ASSUME NEW cl \in Clients, NEW c \in Configs, UpdateMonitor(cl, c)
      PROVE  JobsSilent' /\ AlarmsSilent'
  BY <1>7, EditSilent
<1>8. ASSUME NEW cl \in Clients, DeleteMonitor(cl)
      PROVE  JobsSilent' /\ AlarmsSilent'
  <2> DEFINE m == drafts[cl].monitor
  <2>1. /\ \A n \in Monitors : n # m => monitors'[n] = monitors[n]
        /\ \A j \in jobs' : j \in jobs /\ j.event.monitor # m
    BY <1>0, <1>8 DEF DeleteMonitor, JobsWithout, TypeOK
  <2>2. \A t \in Tokens : Unresolved(t)' => Unresolved(t) /\ runs[t].monitor # m
    BY <1>8 DEF DeleteMonitor, OfMonitor, Unresolved
  <2> HIDE DEF m
  <2>3. JobsSilent'
    BY <1>0, <2>1, JobsKept DEF Silent
  <2> QED
    BY <1>0, <2>1, <2>2, <2>3, AlarmsKept DEF Silent
<1>9. ASSUME NEW t \in Tokens, Acknowledge(t)
      PROVE  JobsSilent' /\ AlarmsSilent'
  <2>1. \A u \in Tokens : Unresolved(u)' <=> Unresolved(u)
    BY <1>0, <1>9 DEF Acknowledge, Unresolved, TypeOK
  <2>2. monitors' = monitors /\ jobs' = jobs
    BY <1>9 DEF Acknowledge
  <2>3. JobsSilent'
    BY <2>2, JobsKept DEF Silent
  <2> QED
    BY <2>1, <2>2, <2>3, AlarmsKept DEF Silent
<1>10. ASSUME NEW j \in jobs, RouteJob(j)
       PROVE  JobsSilent' /\ AlarmsSilent'
  <2>1. \A new \in jobs' : \E old \in jobs : new.event = old.event /\ (new.status = "PENDING" => new = old)
    BY <1>0, <1>10 DEF RouteJob, TypeOK, JobType
  <2>2. monitors' = monitors /\ incidents' = incidents
    BY <1>10 DEF RouteJob
  <2>3. JobsSilent'
    BY <2>1, <2>2, JobsKept DEF Silent
  <2> QED
    BY <2>2, <2>3, AlarmsKept DEF Silent, Unresolved
<1>11. CASE \/ \E w \in Workers : \E claim \in held[w] :
                  Discard(w, claim) \/ Interrupt(w, claim) \/ ReleaseError(w, claim)
            \/ \E w \in Workers : Crash(w)
            \/ \E cl \in Clients, m \in Monitors : Inspect(cl, m)
            \/ Tick
            \/ UNCHANGED vars
  <2>1. monitors' = monitors /\ jobs' = jobs /\ incidents' = incidents
    BY <1>11 DEF Discard, Interrupt, ReleaseError, Crash, Inspect, Tick, vars
  <2> QED
    BY <2>1, SilenceKept
<1> QED
  BY <1>1, <1>2, <1>3, <1>4, <1>5, <1>6, <1>7, <1>8, <1>9, <1>10, <1>11
     DEF Next, Claiming, Working, Operating, Editing

\* The three inductive invariants of leases and incidents hold in every reachable state.
LEMMA IncidentInvHolds == Spec => []IncidentInv
<1>1. Init => Blank
  BY DEF Init, Blank, NoRow
<1>2. TypeOK' /\ LeaseInv /\ [Next]_vars => Blank'
  BY LeaseInvStep DEF LeaseInv
<1>3. LeaseInv <=> TypeOK /\ Blank /\ RunningIffLeased
  BY DEF LeaseInv
<1>4. IncidentInv <=> LeaseInv /\ IncidentConsistent
  BY DEF IncidentInv
<1> QED
  BY <1>1, <1>2, <1>3, <1>4, TypeCorrect, LeasesAndRunsAgree, IncidentsAgree, PTL DEF Spec

\* Once what a monitor asks has been edited, nothing is told and no incident stays open
\* about the old question, even if a check of it was in flight during the edit
\* (repository.ts:94, 210, 212).
THEOREM OldQuestionsAreSilent == Spec => []OldQuestionIsSilent
<1>1. Init => Silent
  BY DEF Init, Silent, HistoryBegun, JobsSilent, AlarmsSilent, Unresolved, NoRow
<1>2. IncidentInv /\ Leased /\ Silent /\ [Next]_vars => Silent'
  BY SilentStep, HistoryStep DEF Silent, IncidentInv, LeaseInv
<1>3. Silent => OldQuestionIsSilent
  BY DEF Silent, JobsSilent, AlarmsSilent, OldQuestionIsSilent
<1> QED
  BY <1>1, <1>2, <1>3, IncidentInvHolds, LeasedHolds, PTL DEF Spec

(************************ incidents and their events ************************)

\* Steps that tell nothing new keep every event with the monitor of its incident.
LEMMA EventsKept ==
    ASSUME IncidentInv, EventsAgree, [Next]_vars, events' \subseteq events
    PROVE  EventsAgree'
<1> SUFFICES ASSUME NEW e \in events', e.incident # None
             PROVE  runs'[e.incident].monitor = e.monitor
  BY DEF EventsAgree
<1>1. e \in events /\ e.incident \in Tokens /\ e.monitor \in Monitors
  BY DEF IncidentInv, LeaseInv, TypeOK, EventType
<1>2. runs[e.incident].monitor = e.monitor
  BY <1>1 DEF EventsAgree
<1>3. runs[e.incident].status # "UNISSUED"
  BY <1>1, <1>2, NoneAssumption DEF IncidentInv, LeaseInv, Blank
<1>4. RunStep(e.incident)
  BY <1>1, StepMoves DEF Moves, IncidentInv, LeaseInv
<1> QED
  BY <1>2, <1>3, <1>4 DEF RunStep

\* Every step keeps every event with the monitor of its incident.
LEMMA EventsStep == IncidentInv /\ EventsAgree /\ [Next]_vars => EventsAgree'
<1> SUFFICES ASSUME IncidentInv, EventsAgree, [Next]_vars PROVE EventsAgree'
  OBVIOUS
<1>0. TypeOK /\ \A n \in Monitors : states[n].active \in Tokens \cup {None}
  BY DEF IncidentInv, LeaseInv, TypeOK
<1>1. ASSUME NEW w \in Workers, NEW claim \in held[w],
             NEW results \in [claim.config.resolvers -> Answers], NEW answered \in BOOLEAN,
             Commit(w, claim, results, answered)
      PROVE  EventsAgree'
  <2> DEFINE m == claim.monitor
             active == states[m].active
  <2>1. m \in Monitors /\ claim.token \in Tokens /\ claim.token # None
    BY <1>0, NoneAssumption DEF TypeOK, ClaimType
  <2>2. runs[claim.token].monitor = m
    BY <1>1, <2>1 DEF Commit, Current, IncidentInv, LeaseInv, RunningIffLeased
  <2>3. active # None => runs[active].monitor = m
    BY <2>1 DEF IncidentInv, IncidentConsistent
  <2>4. \A t \in Tokens : runs'[t].monitor = runs[t].monitor
    BY <1>0, <1>1 DEF Commit, TypeOK, RunType
  <2>5. ASSUME NEW e \in events', e.incident # None
        PROVE  runs'[e.incident].monitor = e.monitor
    <3>1. CASE e \in events
      BY <1>0, <2>4, <2>5, <3>1 DEF EventsAgree, TypeOK, EventType
    <3>2. CASE e \in NewEvents(claim, results)
      <4>1. PICK type \in Types(claim, results) :
                e.monitor = m /\ e.incident = IncidentOf(type, claim, results)
        BY <3>2 DEF NewEvents
      <4>2. e.incident \in {claim.token, active, None}
        BY <4>1 DEF IncidentOf
      <4> QED
        BY <1>0, <2>1, <2>2, <2>3, <2>4, <2>5, <4>1, <4>2
    <3> QED
      BY <1>1, <3>1, <3>2 DEF Commit
  <2> QED
    BY <2>5 DEF EventsAgree
<1>2. ASSUME NEW cl \in Clients, NEW c \in Configs, UpdateMonitor(cl, c)
      PROVE  EventsAgree'
  <2> DEFINE m == drafts[cl].monitor
             active == states[m].active
  <2>1. m \in Monitors
    BY <1>0, <1>2 DEF UpdateMonitor, DraftIsCurrent, TypeOK, DraftType
  <2>2. active # None => runs[active].monitor = m
    BY <2>1 DEF IncidentInv, IncidentConsistent
  <2>3. \A t \in Tokens : runs'[t].monitor = runs[t].monitor
    BY <1>0, <1>2, RunsEndedMonitor DEF UpdateMonitor, AbandonRun
  <2>4. \A e \in events' : e \in events \/ (e.monitor = m /\ e.incident = active)
    BY <1>2 DEF UpdateMonitor
  <2> HIDE DEF m, active
  <2>5. ASSUME NEW e \in events', e.incident # None
        PROVE  runs'[e.incident].monitor = e.monitor
    <3>1. CASE e \in events
      BY <1>0, <2>3, <2>5, <3>1 DEF EventsAgree, TypeOK, EventType
    <3>2. CASE e.monitor = m /\ e.incident = active
      BY <1>0, <2>1, <2>2, <2>3, <2>5, <3>2 DEF active
    <3> QED
      BY <2>4, <3>1, <3>2
  <2> QED
    BY <2>5 DEF EventsAgree
<1>3. CASE \/ \E w \in Workers : Claiming(w) \/ Crash(w)
           \/ \E w \in Workers : \E claim \in held[w] :
                 Discard(w, claim) \/ Interrupt(w, claim) \/ ReleaseError(w, claim)
                 \/ Fail(w, claim)
           \/ \E m \in Monitors : Operating(m)
           \/ \E cl \in Clients : DeleteMonitor(cl) \/ \E m \in Monitors : Inspect(cl, m)
           \/ \E t \in Tokens : Acknowledge(t)
           \/ \E j \in jobs : RouteJob(j)
           \/ Tick
           \/ UNCHANGED vars
  <2>1. events' \subseteq events
    BY <1>3 DEF Claiming, ClaimDue, Crash, Discard, Interrupt, ReleaseError, Fail, Operating,
          CreateMonitor, SetEnabled, UpdateTiming, CheckNow, DeleteMonitor, Inspect, Acknowledge,
          RouteJob, Tick, vars
  <2> QED
    BY <2>1, EventsKept
<1> QED
  BY <1>1, <1>2, <1>3 DEF Next, Working, Editing

(************************ the promise of the scheduler *********************)

\* What MonitorLife sees of the tables.
LifeChecks == [t \in Tokens |-> [status |-> runs[t].status, monitor |-> runs[t].monitor]]
LifeChecker == [m \in Monitors |-> monitors[m].token]
LifeIncident == [m \in Monitors |-> states[m].active]

LifeStep == [Life!Next]_(Life!vars)

\* A step that moves no lease, run or incident and tells nothing is no step of MonitorLife.
LEMMA Stutters ==
    ASSUME runs' = runs, incidents' = incidents, events' = events,
           \A m \in Monitors : /\ monitors'[m].token = monitors[m].token
                               /\ states'[m].active = states[m].active
    PROVE  LifeStep
<1>1. LifeChecks' = LifeChecks /\ LifeChecker' = LifeChecker /\ LifeIncident' = LifeIncident
      /\ Announced' = Announced
  BY DEF LifeChecks, LifeChecker, LifeIncident, Announced
<1> QED
  BY <1>1 DEF LifeStep, Life!vars, Life!inspection, Life!alarm, LifeChecks, LifeChecker, LifeIncident

\* Ending the run of a lease, and the lease, is the end of the check that counts; without
\* a lease nothing happens.
LEMMA LeaseEnds ==
    ASSUME LeaseInv, NEW m \in Monitors, NEW status,
           runs' = RunsEnded({monitors[m].token}, status),
           monitors'[m].token = None,
           \A n \in Monitors : n # m => monitors'[n].token = monitors[n].token
    PROVE  /\ monitors[m].token # None => Life!Stop(m, status)
           /\ monitors[m].token = None => UNCHANGED Life!inspection
<1>1. LifeChecker' = [LifeChecker EXCEPT ![m] = None]
  BY DEF LifeChecker
<1>2. LifeChecker[m] = monitors[m].token
  BY DEF LifeChecker
<1>3. CASE monitors[m].token # None
  <2>1. Running(monitors[m].token)
    BY <1>3 DEF LeaseInv, RunningIffLeased
  <2>2. ASSUME NEW t \in Tokens
        PROVE  LifeChecks'[t] = IF \E n \in {m} : LifeChecker[n] = t
                                THEN [LifeChecks[t] EXCEPT !.status = status] ELSE LifeChecks[t]
    <3>1. runs[t] \in RunType
      BY DEF LeaseInv, TypeOK
    <3>2. CASE t = monitors[m].token
      <4>1. runs'[t] = [runs[t] EXCEPT !.status = status]
        BY <2>1, <3>2 DEF RunsEnded
      <4> QED
        BY <1>2, <3>1, <3>2, <4>1 DEF LifeChecks, RunType
    <3>3. CASE t # monitors[m].token
      <4>1. runs'[t] = runs[t]
        BY <3>3 DEF RunsEnded
      <4> QED
        BY <1>2, <3>3, <4>1 DEF LifeChecks
    <3> QED
      BY <3>2, <3>3
  <2>3. LifeChecks' = [t \in Tokens |-> IF \E n \in {m} : LifeChecker[n] = t
                          THEN [LifeChecks[t] EXCEPT !.status = status] ELSE LifeChecks[t]]
    BY <2>2 DEF LifeChecks
  <2> QED
    BY <1>1, <1>2, <1>3, <2>3
       DEF Life!Stop, Life!Ended, LifeChecks, LifeChecker
<1>4. CASE monitors[m].token = None
  <2>1. \A t \in Tokens : runs'[t] = runs[t]
    BY <1>4, NoneAssumption DEF RunsEnded, Running
  <2>2. LifeChecks' = LifeChecks
    BY <2>1 DEF LifeChecks
  <2>3. LifeChecker' = LifeChecker
    BY <1>4 DEF LifeChecker
  <2> QED
    BY <1>4, <2>2, <2>3 DEF Life!inspection, LifeChecks, LifeChecker
<1> QED
  BY <1>3, <1>4

\* A step that leaves incidents, active incidents and events alone leaves the alarm alone.
LEMMA AlarmUntouched ==
    ASSUME incidents' = incidents, events' = events,
           \A m \in Monitors : states'[m].active = states[m].active
    PROVE  UNCHANGED Life!alarm
<1>1. LifeIncident' = LifeIncident /\ Announced' = Announced
  BY DEF LifeIncident, Announced
<1> QED
  BY <1>1 DEF Life!alarm, LifeIncident

\* Claims start checks, and give up the ones that never came back.
LEMMA ClaimIsStart ==
    ASSUME IncidentInv, NEW w \in Workers, NEW at \in 1..now, NEW S \in SUBSET Monitors,
           NEW token \in FreshTokens(S), NEW reached \in BOOLEAN,
           ClaimDue(w, at, S, token, reached)
    PROVE  LifeStep
<1>0. TypeOK /\ Blank /\ RunningIffLeased
  BY DEF IncidentInv, LeaseInv
<1>1. /\ token \in [S -> Tokens]
      /\ \A m \in S : runs[token[m]].status = "UNISSUED" /\ runs[token[m]].monitor = None
      /\ \A m, n \in S : token[m] = token[n] => m = n
  BY <1>0 DEF FreshTokens, Unissued, Blank
<1>2. \A m \in S : LifeChecks[token[m]] = [status |-> "UNISSUED", monitor |-> None]
  BY <1>1 DEF LifeChecks
<1>3. ASSUME NEW t \in Tokens
      PROVE  LifeChecks'[t] =
                IF \E m \in S : token[m] = t
                THEN [status |-> "RUNNING", monitor |-> CHOOSE m \in S : token[m] = t]
                ELSE IF \E m \in S : LifeChecker[m] = t
                     THEN [LifeChecks[t] EXCEPT !.status = "ABANDONED"] ELSE LifeChecks[t]
  <2> DEFINE abandoned == {monitors[m].token : m \in S}
  <2>1. CASE \E m \in S : token[m] = t
    <3> DEFINE x == CHOOSE m \in S : token[m] = t
    <3>1. runs'[t] = [status |-> "RUNNING", monitor |-> x, revision |-> monitors[x].revision]
      BY <1>2, <2>1 DEF ClaimDue
    <3> HIDE DEF x
    <3>2. LifeChecks'[t] = [status |-> "RUNNING", monitor |-> x]
      BY <3>1 DEF LifeChecks
    <3> QED
      BY <2>1, <3>2 DEF x
  <2>2. CASE ~ \E m \in S : token[m] = t
    <3>1. runs'[t] = RunsEnded(abandoned, "ABANDONED")[t]
      BY <2>2 DEF ClaimDue
    <3>2. t \in abandoned <=> \E m \in S : LifeChecker[m] = t
      BY DEF LifeChecker
    <3>3. t \in abandoned => Running(t)
      BY <1>0, NoneAssumption DEF RunningIffLeased
    <3>4. runs[t] \in RunType
      BY <1>0 DEF TypeOK
    <3>5. CASE t \in abandoned
      <4>1. runs'[t] = [runs[t] EXCEPT !.status = "ABANDONED"]
        BY <3>1, <3>3, <3>5 DEF RunsEnded
      <4>2. LifeChecks'[t] = [LifeChecks[t] EXCEPT !.status = "ABANDONED"]
        BY <3>4, <4>1 DEF LifeChecks, RunType
      <4> QED
        BY <2>2, <3>2, <3>5, <4>2
    <3>6. CASE t \notin abandoned
      <4>1. runs'[t] = runs[t]
        BY <3>1, <3>6 DEF RunsEnded
      <4>2. LifeChecks'[t] = LifeChecks[t]
        BY <4>1 DEF LifeChecks
      <4> QED
        BY <2>2, <3>2, <3>6, <4>2
    <3> QED
      BY <3>5, <3>6
  <2> QED
    BY <2>1, <2>2
<1>4. LifeChecker' = [m \in Monitors |-> IF m \in S THEN token[m] ELSE LifeChecker[m]]
  <2>1. \A m \in Monitors : monitors'[m].token = IF m \in S THEN token[m] ELSE monitors[m].token
    <3> TAKE m \in Monitors
    <3>1. monitors[m] \in RowType
      BY <1>0 DEF TypeOK
    <3>2. m \in S => monitors'[m] = [monitors[m] EXCEPT !.token = token[m],
                                         !.lease = LeaseEnd(monitors[m].config, at)]
      BY DEF ClaimDue
    <3>3. m \notin S => monitors'[m] = monitors[m]
      BY DEF ClaimDue
    <3> QED
      BY <3>1, <3>2, <3>3 DEF RowType
  <2> QED
    BY <2>1 DEF LifeChecker
<1>5. UNCHANGED Life!alarm
  BY AlarmUntouched DEF ClaimDue
<1>6. LifeChecks' = [t \in Tokens |->
               IF \E m \in S : token[m] = t
               THEN [status |-> "RUNNING", monitor |-> CHOOSE m \in S : token[m] = t]
               ELSE Life!Ended(S, "ABANDONED")[t]]
  <2>1. Life!Ended(S, "ABANDONED") =
           [t \in Tokens |-> IF \E m \in S : LifeChecker[m] = t
                             THEN [LifeChecks[t] EXCEPT !.status = "ABANDONED"] ELSE LifeChecks[t]]
    BY DEF Life!Ended, LifeChecks, LifeChecker
  <2>2. LifeChecks' = [t \in Tokens |-> LifeChecks'[t]]
    BY DEF LifeChecks
  <2> QED
    BY <1>3, <2>1, <2>2
<1>7. Life!Start(S, token)
  BY <1>1, <1>2, <1>4, <1>5, <1>6 DEF Life!Start, Life!Unissued, LifeChecks, LifeChecker
<1> QED
  BY <1>1, <1>7 DEF LifeStep, Life!Next

\* A pause, a resume and an edit of when or how it is checked take the check away.
LEMMA TimingIsEdit ==
    ASSUME IncidentInv, NEW m \in Monitors,
           \/ \E enabled \in BOOLEAN : SetEnabled(m, enabled)
           \/ \E c \in Configs : UpdateTiming(m, c)
    PROVE  LifeStep
<1>0. TypeOK /\ LeaseInv
  BY DEF IncidentInv, LeaseInv
<1>1. runs' = RunsEnded({monitors[m].token}, "ABANDONED") /\ incidents' = incidents
      /\ events' = events /\ states' = [states EXCEPT ![m].state = ResetStreaks(@)]
  BY DEF SetEnabled, UpdateTiming, AbandonRun
<1>2. monitors'[m].token = None /\ \A n \in Monitors : n # m => monitors'[n] = monitors[n]
  <2>1. ASSUME NEW row \in RowType, NEW x
        PROVE  /\ [Edited(row) EXCEPT !.enabled = x].token = None
               /\ [Edited(row) EXCEPT !.config = x].token = None
    BY DEF Edited, Released, RowType
  <2>2. monitors[m] \in RowType
    BY <1>0 DEF TypeOK
  <2>3. ASSUME NEW x \in BOOLEAN, SetEnabled(m, x) PROVE monitors'[m].token = None
    <3>1. monitors'[m] = [Edited(monitors[m]) EXCEPT !.enabled = x]
      BY <1>0, <2>3 DEF SetEnabled, TypeOK
    <3> QED
      BY <2>1, <2>2, <3>1
  <2>4. ASSUME NEW c \in Configs, UpdateTiming(m, c) PROVE monitors'[m].token = None
    <3>1. monitors'[m] = [Edited(monitors[m]) EXCEPT !.config = c]
      BY <1>0, <2>4 DEF UpdateTiming, TypeOK
    <3> QED
      BY <2>1, <2>2, <3>1
  <2>5. \A n \in Monitors : n # m => monitors'[n] = monitors[n]
    BY <1>0 DEF SetEnabled, UpdateTiming, TypeOK
  <2> QED
    BY <2>3, <2>4, <2>5
<1>3. /\ monitors[m].token # None => Life!Stop(m, "ABANDONED")
      /\ monitors[m].token = None => UNCHANGED Life!inspection
  BY <1>0, <1>1, <1>2, LeaseEnds
<1>4. \A n \in Monitors : states'[n].active = states[n].active
  BY <1>0, <1>1 DEF TypeOK
<1>5. UNCHANGED Life!alarm
  BY <1>1, <1>4, AlarmUntouched
<1>6. Life!Edit(m)
  BY <1>3, <1>5 DEF Life!Edit, Life!Revoke
<1> QED
  BY <1>6 DEF LifeStep, Life!Next

\* fail() of the claim that holds the lease fails the check; of any other it does nothing.
LEMMA FailIsFail ==
    ASSUME IncidentInv, NEW w \in Workers, NEW claim \in held[w], Fail(w, claim)
    PROVE  LifeStep
<1> DEFINE m == claim.monitor
           owned == Present(m) /\ monitors[m].token = claim.token
<1>0. TypeOK /\ LeaseInv /\ m \in Monitors /\ claim.token # None
  BY NoneAssumption DEF IncidentInv, LeaseInv, TypeOK, ClaimType
<1>1. CASE owned
  <2>1. runs' = RunsEnded({monitors[m].token}, "ERROR")
    BY <1>1 DEF Fail
  <2>2. monitors'[m].token = None /\ \A n \in Monitors : n # m => monitors'[n] = monitors[n]
    BY <1>0, <1>1 DEF Fail, Released, TypeOK, RowType
  <2>3. Life!Stop(m, "ERROR")
    BY <1>0, <1>1, <2>1, <2>2, LeaseEnds
  <2>4. UNCHANGED Life!alarm
    BY AlarmUntouched DEF Fail
  <2> QED
    BY <1>0, <2>3, <2>4 DEF LifeStep, Life!Next, Life!Fail
<1>2. CASE ~owned
  BY <1>2, Stutters DEF Fail
<1> QED
  BY <1>1, <1>2

\* Only an open incident that is not over is acknowledged.
LEMMA AcknowledgeIsAcknowledge ==
    ASSUME IncidentInv, NEW t \in Tokens, Acknowledge(t)
    PROVE  LifeStep
<1>1. Unresolved(t)
  BY DEF Acknowledge, Unresolved
<1>2. runs[t].monitor \in Monitors /\ LifeIncident[runs[t].monitor] = t
  BY <1>1, NoAlarm DEF IncidentInv, IncidentConsistent, LifeIncident
<1>3. /\ LifeChecks' = LifeChecks /\ LifeChecker' = LifeChecker
      /\ LifeIncident' = LifeIncident /\ Announced' = Announced
  BY DEF Acknowledge, LifeChecks, LifeChecker, LifeIncident, Announced
<1>4. Life!Acknowledge(t)
  BY <1>2, <1>3 DEF Acknowledge, Life!Acknowledge, Life!inspection, LifeChecks, LifeChecker, LifeIncident
<1> QED
  BY <1>4 DEF LifeStep, Life!Next

\* The announcements of incidents among some events.
Telling(S) ==
    {[what |-> e.type, incident |-> e.incident, check |-> e.run]
        : e \in {x \in S :
                    /\ x.incident # None
                    /\ x.type \in {"INCIDENT_OPENED", "INCIDENT_RESOLVED",
                                   "CONFIGURATION_CHANGED"}}}

\* New events add their announcements to those there were.
LEMMA ToldToo ==
    ASSUME NEW new, events' = events \cup new
    PROVE  Announced' = Announced \cup Telling(new)
  BY DEF Announced, Telling

\* A check tells of an incident only what it does to it.
LEMMA CommitTells ==
    ASSUME NEW claim, NEW results, claim.token # None, states[claim.monitor].active # None
                <=> states[claim.monitor].state.incidentOpen
    PROVE  LET opened   == "INCIDENT_OPENED" \in Types(claim, results)
               resolved == "INCIDENT_RESOLVED" \in Types(claim, results)
               told     == Telling(NewEvents(claim, results))
           IN  /\ opened => told = {[what |-> "INCIDENT_OPENED", incident |-> claim.token,
                                     check |-> claim.token]}
               /\ ~opened /\ resolved =>
                     told = {[what |-> "INCIDENT_RESOLVED",
                              incident |-> states[claim.monitor].active, check |-> claim.token]}
               /\ ~opened /\ ~resolved => told = {}
<1> DEFINE opened   == "INCIDENT_OPENED" \in Types(claim, results)
           resolved == "INCIDENT_RESOLVED" \in Types(claim, results)
           told     == Telling(NewEvents(claim, results))
           active   == states[claim.monitor].active
<1>1. /\ opened => ~states[claim.monitor].state.incidentOpen
      /\ resolved => states[claim.monitor].state.incidentOpen
      /\ Types(claim, results) \subseteq EventTypes
  BY DEF Types, Emitted
<1>2. /\ IncidentOf("INCIDENT_OPENED", claim, results) = claim.token
      /\ IncidentOf("INCIDENT_RESOLVED", claim, results) = active
  BY DEF IncidentOf
<1>3. ~(opened /\ resolved) /\ (resolved => active # None)
  BY <1>1
<1> DEFINE row(type) == [what |-> type, incident |-> IncidentOf(type, claim, results),
                         check |-> claim.token]
<1>4. \A a : a \in told <=>
         \E type \in Types(claim, results) :
             /\ type \in {"INCIDENT_OPENED", "INCIDENT_RESOLVED", "CONFIGURATION_CHANGED"}
             /\ IncidentOf(type, claim, results) # None
             /\ a = row(type)
  <2> DEFINE event(type) ==
                [monitor |-> claim.monitor, run |-> claim.token, revision |-> claim.revision,
                 type |-> type, incident |-> IncidentOf(type, claim, results)]
             tells(e) == /\ e.incident # None
                         /\ e.type \in {"INCIDENT_OPENED", "INCIDENT_RESOLVED",
                                        "CONFIGURATION_CHANGED"}
             telling(e) == [what |-> e.type, incident |-> e.incident, check |-> e.run]
  <2>1. \A type : /\ telling(event(type)) = row(type)
                  /\ tells(event(type)) <=>
                        /\ type \in {"INCIDENT_OPENED", "INCIDENT_RESOLVED",
                                     "CONFIGURATION_CHANGED"}
                        /\ IncidentOf(type, claim, results) # None
    OBVIOUS
  <2>2. \A e : e \in NewEvents(claim, results) <=>
                 \E type \in Types(claim, results) : e = event(type)
    BY DEF NewEvents
  <2>3. \A a : a \in told <=> \E e \in NewEvents(claim, results) : tells(e) /\ a = telling(e)
    BY DEF Telling
  <2> HIDE DEF event, tells, telling, row, told
  <2> QED
    BY <2>1, <2>2, <2>3
<1>5. \A a : a \in told <=> \/ opened /\ a = row("INCIDENT_OPENED")
                            \/ resolved /\ a = row("INCIDENT_RESOLVED")
  <2>1. "CONFIGURATION_CHANGED" \notin Types(claim, results)
    BY <1>1 DEF EventTypes
  <2> HIDE DEF told, row
  <2> QED
    BY <1>2, <1>3, <1>4, <2>1
<1> HIDE DEF told, opened, resolved
<1>6. opened => told = {row("INCIDENT_OPENED")}
  BY <1>3, <1>5
<1>7. ~opened /\ resolved => told = {row("INCIDENT_RESOLVED")}
  BY <1>5
<1>8. ~opened /\ ~resolved => told = {}
  BY <1>5
<1> QED
  BY <1>2, <1>6, <1>7, <1>8 DEF told, opened, resolved

\* A commit completes the check that counts, with the incident it opens or resolves.
LEMMA CommitIsComplete ==
    ASSUME IncidentInv, NEW w \in Workers, NEW claim \in held[w],
           NEW results \in [claim.config.resolvers -> Answers], NEW answered \in BOOLEAN,
           Commit(w, claim, results, answered)
    PROVE  LifeStep
<1> DEFINE m == claim.monitor
           active == states[m].active
           opened == "INCIDENT_OPENED" \in Types(claim, results)
           resolved == "INCIDENT_RESOLVED" \in Types(claim, results)
           told == Telling(NewEvents(claim, results))
<1>0. /\ TypeOK /\ LeaseInv /\ m \in Monitors /\ claim.token \in Tokens /\ claim.token # None
      /\ active \in Tokens \cup {None}
  BY NoneAssumption DEF IncidentInv, LeaseInv, TypeOK, ClaimType
<1>1. monitors[m].token = claim.token /\ Running(claim.token)
  BY <1>0 DEF Commit, Current, LeaseInv, RunningIffLeased
<1>2. runs' = RunsEnded({monitors[m].token}, "COMPLETED")
  BY <1>0, <1>1 DEF Commit, RunsEnded, TypeOK
<1>3. monitors'[m].token = None /\ \A n \in Monitors : n # m => monitors'[n] = monitors[n]
  BY <1>0 DEF Commit, Released, TypeOK, RowType
<1>4. Life!Stop(m, "COMPLETED")
  BY <1>0, <1>1, <1>2, <1>3, LeaseEnds
<1>5. active # None <=> states[m].state.incidentOpen
  BY <1>0 DEF IncidentInv, IncidentConsistent
<1>6. /\ opened => told = {[what |-> "INCIDENT_OPENED", incident |-> claim.token,
                            check |-> claim.token]}
      /\ ~opened /\ resolved => told = {[what |-> "INCIDENT_RESOLVED", incident |-> active,
                                         check |-> claim.token]}
      /\ ~opened /\ ~resolved => told = {}
  BY <1>0, <1>5, CommitTells
<1>7. Announced' = Announced \cup told
  BY ToldToo DEF Commit
<1>8. /\ opened => active = None
      /\ resolved => active # None
  BY DEF Commit, Refused
<1>9. incidents' = [t \in Tokens |-> IF t = claim.token /\ opened THEN "OPEN"
                                     ELSE IF t = active /\ resolved THEN "RESOLVED"
                                     ELSE incidents[t]]
  BY DEF Commit
<1>10. LifeIncident' = [LifeIncident EXCEPT ![m] =
                           IF opened THEN claim.token ELSE IF resolved THEN None ELSE active]
  <2>1. states' = [states EXCEPT ![m] = [state |-> Outcome(claim, results),
                                         active |-> ActiveAfter(claim, results)]]
    BY DEF Commit
  <2>2. ActiveAfter(claim, results) =
            IF opened THEN claim.token ELSE IF resolved THEN None ELSE active
    BY DEF ActiveAfter
  <2>3. \A n \in Monitors : states'[n].active =
            IF n = m THEN ActiveAfter(claim, results) ELSE states[n].active
    BY <1>0, <2>1 DEF TypeOK
  <2> HIDE DEF opened, resolved, active
  <2> QED
    BY <2>2, <2>3 DEF LifeIncident
<1>11. LifeIncident[m] = active /\ LifeChecker[m] = claim.token
  BY <1>0, <1>1 DEF LifeIncident, LifeChecker
<1>12. incidents \in [Tokens -> {"NONE", "OPEN", "ACKNOWLEDGED", "RESOLVED", "CLOSED"}]
  BY <1>0 DEF TypeOK
<1> HIDE DEF m, active, opened, resolved, told
<1>13. CASE opened
  <2>1. incidents' = [incidents EXCEPT ![claim.token] = "OPEN"]
    BY <1>0, <1>8, <1>9, <1>12, <1>13
  <2>2. LifeIncident' = [LifeIncident EXCEPT ![m] = claim.token]
    BY <1>10, <1>13
  <2>3. Announced' = Announced \cup {[what |-> "INCIDENT_OPENED", incident |-> claim.token,
                                      check |-> claim.token]}
    BY <1>6, <1>7, <1>13
  <2>4. Life!Open(m)
    BY <1>8, <1>11, <1>13, <2>1, <2>2, <2>3
       DEF Life!Open, Life!Announce, LifeIncident, LifeChecker
  <2> QED
    BY <1>0, <1>4, <2>4 DEF LifeStep, Life!Next, Life!Complete
<1>14. CASE ~opened /\ resolved
  <2>1. incidents' = [incidents EXCEPT ![active] = "RESOLVED"]
    BY <1>0, <1>8, <1>9, <1>12, <1>14
  <2>2. LifeIncident' = [LifeIncident EXCEPT ![m] = None]
    BY <1>10, <1>14
  <2>3. Announced' = Announced \cup {[what |-> "INCIDENT_RESOLVED", incident |-> active,
                                      check |-> claim.token]}
    BY <1>6, <1>7, <1>14
  <2>4. Life!End(m, "RESOLVED", "INCIDENT_RESOLVED", LifeChecker[m])
    BY <1>8, <1>11, <1>14, <2>1, <2>2, <2>3
       DEF Life!End, Life!Announce, LifeIncident
  <2> QED
    BY <1>0, <1>4, <2>4 DEF LifeStep, Life!Next, Life!Complete, LifeChecker
<1>15. CASE ~opened /\ ~resolved
  <2>1. incidents' = incidents
    BY <1>9, <1>12, <1>15
  <2>2. LifeIncident' = LifeIncident
    BY <1>10, <1>11, <1>15 DEF LifeIncident
  <2>3. Announced' = Announced
    BY <1>6, <1>7, <1>15
  <2>4. UNCHANGED Life!alarm
    BY <2>1, <2>2, <2>3 DEF Life!alarm, LifeIncident
  <2> QED
    BY <1>0, <1>4, <2>4 DEF LifeStep, Life!Next, Life!Complete
<1> QED
  BY <1>13, <1>14, <1>15

\* One event about an incident is told, one about none is not.
LEMMA TellingOne ==
    ASSUME NEW e, e.type = "CONFIGURATION_CHANGED"
    PROVE  Telling({e}) =
               IF e.incident = None THEN {}
               ELSE {[what |-> e.type, incident |-> e.incident, check |-> e.run]}
<1>1. CASE e.incident = None
  BY <1>1 DEF Telling
<1>2. CASE e.incident # None
  <2>1. {x \in {e} : /\ x.incident # None
                     /\ x.type \in {"INCIDENT_OPENED", "INCIDENT_RESOLVED",
                                    "CONFIGURATION_CHANGED"}} = {e}
    BY <1>2
  <2>2. Telling({e}) = {[what |-> x.type, incident |-> x.incident, check |-> x.run] : x \in {e}}
    BY <2>1 DEF Telling
  <2> QED
    BY <1>2, <2>2
<1> QED
  BY <1>1, <1>2

\* An edit through a form takes the check away, and closes the incident when it changes
\* what is asked.
LEMMA UpdateIsEdit ==
    ASSUME IncidentInv, NEW cl \in Clients, NEW c \in Configs, UpdateMonitor(cl, c),
           NEW m \in Monitors, m = drafts[cl].monitor
    PROVE  LifeStep
<1> DEFINE row == monitors[m]
           active == states[m].active
           changed == QueryIdentity(c) # QueryIdentity(row.config)
           edited == [Edited(row) EXCEPT !.config = c,
                         !.history = IF changed THEN row.revision + 1 ELSE row.history]
           event == [monitor |-> m, run |-> None, revision |-> row.revision + 1,
                     type |-> "CONFIGURATION_CHANGED", incident |-> active]
<1>0. /\ TypeOK /\ LeaseInv /\ m \in Monitors /\ row \in RowType
      /\ states[m] \in [state : StateType, active : Tokens \cup {None}]
  BY DEF UpdateMonitor, DraftIsCurrent, IncidentInv, LeaseInv, TypeOK, DraftType
<1>1. edited.token = None
  <2>1. ASSUME NEW r \in RowType, NEW h
        PROVE  [Edited(r) EXCEPT !.config = c, !.history = h].token = None
    BY DEF Edited, Released, RowType
  <2> HIDE DEF row, changed
  <2> QED
    BY <1>0, <2>1
<1>2. monitors' = [monitors EXCEPT ![m] = edited]
  BY DEF UpdateMonitor
<1>3. runs' = RunsEnded({monitors[m].token}, "ABANDONED")
  BY DEF UpdateMonitor, AbandonRun
<1>4. Life!Revoke(m)
  <2>1. /\ \A n \in Monitors : n # m => monitors'[n].token = monitors[n].token
        /\ \A n \in Monitors : n = m => monitors'[n].token = None
    <3> HIDE DEF edited
    <3> QED
      BY <1>0, <1>1, <1>2 DEF TypeOK
  <2>2. monitors'[m].token = None
    BY <1>0, <2>1
  <2>3. /\ monitors[m].token # None => Life!Stop(m, "ABANDONED")
        /\ monitors[m].token = None => UNCHANGED Life!inspection
    BY <1>0, <1>3, <2>1, <2>2, LeaseEnds
  <2> QED
    BY <1>0, <2>3 DEF Life!Revoke
<1>5. \A n \in Monitors : n # m => states'[n] = states[n]
  BY <1>0 DEF UpdateMonitor, TypeOK
<1>6. \A n \in Monitors : n = m => states'[n].active = IF changed THEN None ELSE active
  <2> DEFINE after == CASE changed -> Fresh
                        [] ~changed /\ Timing(c) # Timing(row.config) ->
                              [states[m] EXCEPT !.state = ResetStreaks(@)]
                        [] OTHER -> states[m]
  <2>1. after.active = IF changed THEN None ELSE active
    BY <1>0 DEF Fresh
  <2>2. states' = [states EXCEPT ![m] = after]
    BY DEF UpdateMonitor
  <2> HIDE DEF after, changed
  <2> QED
    BY <1>0, <2>1, <2>2 DEF TypeOK
<1>7. CASE changed /\ active # None
  <2>1. incidents' = [incidents EXCEPT ![active] = "CLOSED"] /\ events' = events \cup {event}
    BY <1>7 DEF UpdateMonitor, Closed
  <2>2. Announced' = Announced \cup Telling({event})
    BY <2>1, ToldToo
  <2>3. Telling({event}) =
            {[what |-> "CONFIGURATION_CHANGED", incident |-> active, check |-> None]}
    BY <1>7, TellingOne
  <2> HIDE DEF active, changed, event
  <2>4. LifeIncident' = [LifeIncident EXCEPT ![m] = None] /\ LifeIncident[m] = active
    BY <1>0, <1>5, <1>6, <1>7 DEF LifeIncident, active
  <2>5. Life!End(m, "CLOSED", "CONFIGURATION_CHANGED", None)
    BY <1>7, <2>1, <2>2, <2>3, <2>4 DEF Life!End, Life!Announce, LifeIncident
  <2> QED
    BY <1>0, <1>4, <2>5 DEF LifeStep, Life!Next, Life!Edit
<1>8. CASE changed /\ active = None
  <2>1. incidents' = incidents /\ events' = events \cup {event}
    BY <1>8 DEF UpdateMonitor, Closed
  <2>2. Telling({event}) = {}
    <3>1. event.type = "CONFIGURATION_CHANGED" /\ event.incident = None
      BY <1>8
    <3> HIDE DEF event
    <3> QED
      BY <3>1, TellingOne
  <2>3. Announced' = Announced
    BY <2>1, <2>2, ToldToo
  <2> HIDE DEF active, changed, event
  <2>4. LifeIncident' = LifeIncident
    BY <1>0, <1>5, <1>6, <1>8 DEF LifeIncident, active
  <2>5. UNCHANGED Life!alarm
    BY <2>1, <2>3, <2>4 DEF Life!alarm, LifeIncident
  <2> QED
    BY <1>0, <1>4, <2>5 DEF LifeStep, Life!Next, Life!Edit
<1>9. CASE ~changed
  <2>1. incidents' = incidents /\ events' = events
    BY <1>9 DEF UpdateMonitor
  <2> HIDE DEF active, changed
  <2>2. \A n \in Monitors : states'[n].active = states[n].active
    BY <1>5, <1>6, <1>9 DEF active
  <2>3. UNCHANGED Life!alarm
    BY <2>1, <2>2, AlarmUntouched
  <2> QED
    BY <1>0, <1>4, <2>3 DEF LifeStep, Life!Next, Life!Edit
<1> QED
  BY <1>7, <1>8, <1>9

\* A deletion takes all there is of a monitor, and no more.
LEMMA DeleteIsRemove ==
    ASSUME IncidentInv, EventsAgree, NEW cl \in Clients, DeleteMonitor(cl),
           NEW m \in Monitors, m = drafts[cl].monitor
    PROVE  LifeStep
<1> DEFINE mine == {t \in Tokens : LifeChecks[t].monitor = m}
<1>0. TypeOK /\ LeaseInv /\ m \in Monitors
  BY DEF DeleteMonitor, DraftIsCurrent, IncidentInv, LeaseInv, TypeOK, DraftType
<1>1. mine = OfMonitor(m)
  BY DEF OfMonitor, LifeChecks
<1>2. LifeChecks' = [t \in Tokens |-> IF t \in mine THEN [LifeChecks[t] EXCEPT !.status = "DELETED"]
                                      ELSE LifeChecks[t]]
  <2>1. runs' = [t \in Tokens |-> IF t \in mine THEN [runs[t] EXCEPT !.status = "DELETED"]
                                  ELSE runs[t]]
    BY <1>1 DEF DeleteMonitor
  <2> HIDE DEF mine
  <2>2. ASSUME NEW t \in Tokens
        PROVE  LifeChecks'[t] = IF t \in mine THEN [LifeChecks[t] EXCEPT !.status = "DELETED"]
                                ELSE LifeChecks[t]
    <3>1. runs[t] \in RunType
      BY <1>0 DEF TypeOK
    <3> QED
      BY <2>1, <3>1 DEF LifeChecks, RunType
  <2> QED
    BY <2>2 DEF LifeChecks
<1>3. incidents' = [t \in Tokens |-> IF t \in mine THEN "NONE" ELSE incidents[t]]
  BY <1>1 DEF DeleteMonitor
<1>4. /\ LifeChecker' = [LifeChecker EXCEPT ![m] = None]
      /\ LifeIncident' = [LifeIncident EXCEPT ![m] = None]
  <2> DEFINE row == [NoRow EXCEPT !.phase = "DELETED"]
  <2>1. row.token = None /\ Fresh.active = None
    BY DEF NoRow, Fresh
  <2>2. monitors' = [monitors EXCEPT ![m] = row] /\ states' = [states EXCEPT ![m] = Fresh]
    BY DEF DeleteMonitor
  <2> HIDE DEF row
  <2> QED
    BY <1>0, <2>1, <2>2 DEF LifeChecker, LifeIncident, TypeOK
<1>5. Announced' = {a \in Announced : a.incident \notin mine}
  <2>1. events' = {e \in events : e.monitor # m}
    BY DEF DeleteMonitor
  <2>2. \A e \in events : e.incident # None => (e.monitor # m <=> e.incident \notin mine)
    BY <1>0, <1>1 DEF EventsAgree, OfMonitor, TypeOK, EventType
  <2> HIDE DEF mine
  <2> QED
    BY <2>1, <2>2 DEF Announced
<1>6. Life!Remove(m)
  BY <1>2, <1>3, <1>4, <1>5 DEF Life!Remove, LifeChecks, LifeChecker, LifeIncident
<1> QED
  BY <1>0, <1>6 DEF LifeStep, Life!Next

\* Every step of the scheduler is a step of MonitorLife or none.
LEMMA LifeSteps == IncidentInv /\ EventsAgree /\ [Next]_vars => LifeStep
<1> SUFFICES ASSUME IncidentInv, EventsAgree, [Next]_vars PROVE LifeStep
  OBVIOUS
<1>0. TypeOK /\ Blank
  BY DEF IncidentInv, LeaseInv
<1>1. ASSUME NEW m \in Monitors, NEW c \in Configs, NEW delay \in 0..(c.interval - 1),
             CreateMonitor(m, c, delay)
      PROVE  LifeStep
  <2>1. /\ monitors[m].token = None /\ states[m] = Fresh
        /\ monitors'[m].token = None /\ states'[m] = Fresh
        /\ \A n \in Monitors : n # m => monitors'[n] = monitors[n] /\ states'[n] = states[n]
    BY <1>0, <1>1 DEF CreateMonitor, Blank, TypeOK
  <2> QED
    BY <1>1, <2>1, Stutters DEF CreateMonitor
<1>2. ASSUME NEW w \in Workers, NEW at \in 1..now, NEW S \in SUBSET Monitors,
             NEW token \in FreshTokens(S), NEW reached \in BOOLEAN,
             ClaimDue(w, at, S, token, reached)
      PROVE  LifeStep
  BY <1>2, ClaimIsStart
<1>3. ASSUME NEW w \in Workers, NEW claim \in held[w],
             NEW results \in [claim.config.resolvers -> Answers], NEW answered \in BOOLEAN,
             Commit(w, claim, results, answered)
      PROVE  LifeStep
  BY <1>3, CommitIsComplete
<1>4. ASSUME NEW w \in Workers, NEW claim \in held[w], Fail(w, claim)
      PROVE  LifeStep
  BY <1>4, FailIsFail
<1>5. ASSUME NEW m \in Monitors,
             \/ \E enabled \in BOOLEAN : SetEnabled(m, enabled)
             \/ \E c \in Configs : UpdateTiming(m, c)
      PROVE  LifeStep
  BY <1>5, TimingIsEdit
<1>6. ASSUME NEW m \in Monitors, CheckNow(m)
      PROVE  LifeStep
  <2>1. ASSUME NEW n \in Monitors PROVE monitors'[n].token = monitors[n].token
    <3>1. CASE monitors'[n] = monitors[n]
      BY <3>1
    <3>2. CASE monitors'[n] = [monitors[n] EXCEPT !.next = now]
      <4>1. monitors[n] \in RowType
        BY <1>0 DEF TypeOK
      <4> QED
        BY <3>2, <4>1, DueKeeps
    <3> QED
      BY <1>0, <1>6, <3>1, <3>2 DEF CheckNow, TypeOK
  <2> QED
    BY <1>6, <2>1, Stutters DEF CheckNow
<1>7. ASSUME NEW cl \in Clients, NEW c \in Configs, UpdateMonitor(cl, c)
      PROVE  LifeStep
  <2>1. PICK m \in Monitors : m = drafts[cl].monitor
    BY <1>0, <1>7 DEF UpdateMonitor, DraftIsCurrent, TypeOK, DraftType
  <2> QED
    BY <1>7, <2>1, UpdateIsEdit
<1>8. ASSUME NEW cl \in Clients, DeleteMonitor(cl)
      PROVE  LifeStep
  <2>1. PICK m \in Monitors : m = drafts[cl].monitor
    BY <1>0, <1>8 DEF DeleteMonitor, DraftIsCurrent, TypeOK, DraftType
  <2> QED
    BY <1>8, <2>1, DeleteIsRemove
<1>9. ASSUME NEW t \in Tokens, Acknowledge(t)
      PROVE  LifeStep
  BY <1>9, AcknowledgeIsAcknowledge
<1>10. CASE \/ \E w \in Workers : \E claim \in held[w] :
                  Discard(w, claim) \/ Interrupt(w, claim) \/ ReleaseError(w, claim)
            \/ \E w \in Workers : Crash(w)
            \/ \E cl \in Clients, m \in Monitors : Inspect(cl, m)
            \/ \E j \in jobs : RouteJob(j)
            \/ Tick
            \/ UNCHANGED vars
  <2>1. monitors' = monitors /\ states' = states /\ runs' = runs /\ incidents' = incidents
        /\ events' = events
    BY <1>10 DEF Discard, Interrupt, ReleaseError, Crash, Inspect, RouteJob, Tick, vars
  <2> QED
    BY <2>1, Stutters
<1> QED
  BY <1>1, <1>2, <1>3, <1>4, <1>5, <1>6, <1>7, <1>8, <1>9, <1>10
     DEF Next, Claiming, Working, Operating, Editing

\* Scheduler implements MonitorLife: only the check that holds the lease counts, a check
\* ends once, an incident is opened and ended once and told once each time, by the check
\* that counts or by an edit, and never reopened (repository.ts:62-133, 179-246;
\* server.ts:178).
THEOREM SchedulerImplementsLife == Spec => ImplementsLife
<1>1. Init => Life!Init
  BY DEF Init, Life!Init, Life!Unissued, NoRow, Fresh, Announced
<1>2. Init => EventsAgree
  BY DEF Init, EventsAgree
<1>3. IncidentInv /\ EventsAgree /\ [Next]_vars => [Life!Next]_(Life!vars)
  BY LifeSteps DEF LifeStep
<1> QED
  BY <1>1, <1>2, <1>3, EventsStep, IncidentInvHolds, PTL DEF Spec, ImplementsLife, Life!Spec

=============================================================================
