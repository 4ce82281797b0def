------------------------------ MODULE Evaluator ------------------------------
(***************************************************************************)
(* The pure part of a check: what a set of resolver results says           *)
(* (consensus) and how it moves the stored state of a monitor (evaluate),  *)
(* packages/monitoring/src/index.ts, with the record comparison of         *)
(* packages/dns-engine/src/records.ts.                                     *)
(*                                                                         *)
(* Data.  normalize() sorts and deduplicates the answers and hash() is     *)
(* compared only for equality, so a normalised answer IS a set of records. *)
(* A set of records stands for a value, {} for "no value": a resolver that *)
(* fails, or answers NODATA, contributes {} and is ignored by consensus.   *)
(* A result list is a function from the resolvers queried to their answers *)
(* (execute() queries each configured resolver exactly once, so the        *)
(* duplicate test of consensus cannot fail).                               *)
(***************************************************************************)
EXTENDS Naturals, FiniteSets

NoValue == {}

Statuses == {"UNKNOWN", "HEALTHY", "WARNING", "CRITICAL"}

EventTypes ==
    {"BASELINE_ESTABLISHED", "VALUE_CHANGED", "INCIDENT_OPENED", "INCIDENT_RESOLVED"}

AtMost(n, limit) == IF n < limit THEN n ELSE limit

(***************************** observation *********************************)

Matches(c, value) ==
    IF c.match = "EXACT" THEN value = c.expected ELSE c.expected \subseteq value

Supporters(results, value) == {r \in DOMAIN results : results[r] = value}

\* Mutant of HasQuorum: half of the resolvers is enough.
HalfIsQuorum(c, results, value) ==
    /\ value # NoValue
    /\ 2 * Cardinality(Supporters(results, value)) >= Cardinality(c.resolvers)

\* A strict majority of the CONFIGURED resolvers gave this value.
HasQuorum(c, results, value) ==
    /\ value # NoValue
    /\ 2 * Cardinality(Supporters(results, value)) > Cardinality(c.resolvers)

Winners(c, results) ==
    {value \in {results[r] : r \in DOMAIN results} : HasQuorum(c, results, value)}

Consensus(c, results) ==
    IF Winners(c, results) = {}
    THEN [value |-> NoValue, degraded |-> TRUE]
    ELSE LET winner == CHOOSE value \in Winners(c, results) : TRUE
         IN  [value    |-> winner,
              degraded |-> Cardinality(Supporters(results, winner)) # Cardinality(c.resolvers)]

(******************************** state ************************************)

InitialState ==
    [status |-> "UNKNOWN", failures |-> 0, successes |-> 0, incidentOpen |-> FALSE,
     baseline |-> NoValue, candidate |-> NoValue, candidateCount |-> 0, lastCheckedAt |-> 0]

\* Mutant of ResetStreaks: the status takes a value no reader knows.
ResetToPaused(s) ==
    [s EXCEPT !.failures = 0, !.successes = 0, !.candidate = NoValue, !.candidateCount = 0,
              !.status = "PAUSED"]

\* What pausing, resuming and a change of timing do to the stored state:
\* streaks start again, an open incident and the baseline stay.
ResetStreaks(s) ==
    [s EXCEPT !.failures = 0, !.successes = 0,
              !.candidate = NoValue, !.candidateCount = 0,
              !.status = IF s.incidentOpen THEN "CRITICAL" ELSE "UNKNOWN"]

(****************************** transition *********************************)

Failed(c, value) ==
    \/ value = NoValue
    \/ c.mode = "EXPECTED" /\ ~Matches(c, value)

\* Mutant of AfterFailure: a failed check does not break the run of a candidate.
FailureKeepsCandidate(c, s) ==
    LET failures == AtMost(s.failures + 1, c.failureThreshold)
        open     == s.incidentOpen \/ failures >= c.failureThreshold
    IN  [s EXCEPT !.failures = failures, !.successes = 0, !.incidentOpen = open,
                  !.status = IF open THEN "CRITICAL" ELSE "WARNING"]

AfterFailure(c, s) ==
    LET failures == AtMost(s.failures + 1, c.failureThreshold)
        open     == s.incidentOpen \/ failures >= c.failureThreshold
    IN  [s EXCEPT !.failures = failures, !.successes = 0,
                  !.candidate = NoValue, !.candidateCount = 0,
                  !.incidentOpen = open,
                  !.status = IF open THEN "CRITICAL" ELSE "WARNING"]

\* The number of consecutive checks that showed the candidate, this one included.
CandidateRun(s, value) ==
    IF s.candidate = value THEN s.candidateCount + 1 ELSE 1

\* WATCH mode: a value that differs from the baseline becomes the baseline
\* once changeThreshold consecutive checks have shown it.
Watched(c, s, value) ==
    IF s.baseline = value
    THEN [s EXCEPT !.candidate = NoValue, !.candidateCount = 0]
    ELSE IF CandidateRun(s, value) >= c.changeThreshold
    THEN [s EXCEPT !.baseline = value, !.candidate = NoValue, !.candidateCount = 0]
    ELSE [s EXCEPT !.candidate = value, !.candidateCount = CandidateRun(s, value)]

\* Mutant of SettledStatus: a dissenting resolver is not reported.
StatusDespiteDissent(c, s, degraded) ==
    IF s.incidentOpen THEN "CRITICAL"
    ELSE IF s.candidate # NoValue THEN "WARNING" ELSE "HEALTHY"

SettledStatus(c, s, degraded) ==
    CASE s.incidentOpen -> "CRITICAL"
      [] ~s.incidentOpen /\ c.mode = "WATCH" /\ s.baseline = NoValue -> "UNKNOWN"
      [] OTHER -> IF degraded \/ s.candidate # NoValue THEN "WARNING" ELSE "HEALTHY"

AfterSuccess(c, s, observation) ==
    LET successes == AtMost(s.successes + 1, c.recoveryThreshold)
        counted   == [s EXCEPT !.failures = 0, !.successes = successes,
                               !.incidentOpen = @ /\ successes < c.recoveryThreshold]
        watched   == IF c.mode = "WATCH" THEN Watched(c, counted, observation.value)
                                         ELSE counted
    IN  [watched EXCEPT !.status = SettledStatus(c, watched, observation.degraded)]

\* evaluate() refuses a check that is not newer than the stored one.
NotNewer(s, now) == now <= s.lastCheckedAt

Evaluate(c, s, results, now) ==
    LET observation == Consensus(c, results)
        moved == IF Failed(c, observation.value)
                 THEN AfterFailure(c, s) ELSE AfterSuccess(c, s, observation)
    IN  [moved EXCEPT !.lastCheckedAt = now]

\* The events of a check, as the difference it made: each type occurs at most
\* once, and INCIDENT_RESOLVED precedes the value events of the same check.
Emitted(s, t) ==
    {type \in EventTypes :
        \/ type = "INCIDENT_OPENED"      /\ ~s.incidentOpen /\ t.incidentOpen
        \/ type = "INCIDENT_RESOLVED"    /\ s.incidentOpen /\ ~t.incidentOpen
        \/ type = "VALUE_CHANGED"        /\ s.baseline # NoValue /\ t.baseline # s.baseline
        \/ type = "BASELINE_ESTABLISHED" /\ s.baseline = NoValue /\ t.baseline # NoValue}
=============================================================================
