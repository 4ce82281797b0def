------------------------------- MODULE Detector -------------------------------
(***************************************************************************)
(* One monitor as a fold of evaluate() over the checks that commit, with   *)
(* the resets an operator causes in between.  `window' remembers what the  *)
(* checks since the last reset showed, so that the counters kept in the    *)
(* stored state can be compared with what they are meant to count.  A      *)
(* check asks every resolver and gets a response, from which Records takes *)
(* the answers; `window' has what the responses told, read on its own.     *)
(***************************************************************************)
EXTENDS Evaluator, Records

CONSTANTS
    Configs,     \* the monitor configurations considered
    Hostname, Type,
                 \* what is asked
    Responses,   \* the responses a resolver may give
    MaxChecks    \* bound: committed checks per behaviour

ASSUME ConfigsHaveThresholds ==
    \A c \in Configs : /\ c.failureThreshold \in Nat \ {0}
                       /\ c.recoveryThreshold \in Nat \ {0}
                       /\ c.changeThreshold \in Nat \ {0}
ASSUME ConfigsNameResolvers ==
    \A c \in Configs : IsFiniteSet(c.resolvers) /\ c.resolvers # {}
\* response.answers ?? [] of query(): a response has a list of records.
ASSUME ResponsesHaveRecords ==
    \A x \in Responses : x.records \in Seq(Lists!ToSet(x.records))
ASSUME MaxChecksAssumption == MaxChecks \in Nat

VARIABLES
    config,   \* the configuration of the monitor
    state,    \* monitor_states.state
    now,      \* the clock, counted in committed checks
    window    \* history: what was true at the last reset, and the values since

vars == <<config, state, now, window>>

\* What query() makes of each response, and what it tells.
Replies == {[answers |-> Answered(Hostname, Type, x), told |-> Told(Hostname, Type, x)] :
               x \in Responses}

Answers == {reply.told : reply \in Replies} \cup {NoValue}

(* What the resolvers agree on, independently of how consensus() groups the
   results: more than half of the configured ones gave exactly this value.   *)
Agreed(c, replies) ==
    LET unanimous(v) == \E Q \in SUBSET c.resolvers :
                            /\ 2 * Cardinality(Q) > Cardinality(c.resolvers)
                            /\ \A r \in Q : replies[r].told = v
    IN  {v \in Answers \ {NoValue} : unanimous(v)}

WindowFrom(s) == [open |-> s.incidentOpen, baseline |-> s.baseline, seen |-> <<>>]

Init ==
    /\ config \in Configs
    /\ state = InitialState
    /\ now = 0
    /\ window = WindowFrom(InitialState)

\* What execute collects: the answers of each resolver.
Results(replies) == [r \in DOMAIN replies |-> replies[r].answers]

Check ==
    \E replies \in [config.resolvers -> Replies] :
        /\ now < MaxChecks
        /\ now' = now + 1
        /\ ~NotNewer(state, now')
        /\ state' = Evaluate(config, state, Results(replies), now')
        /\ window' = [window EXCEPT !.seen = Append(@,
                        [agreed    |-> Agreed(config, replies),
                         unanimous |-> \A r, q \in config.resolvers :
                                          replies[r].told = replies[q].told
                                          /\ replies[r].told # NoValue])]
        /\ UNCHANGED config

\* A change of thresholds or timing, a pause or a resume.
SameQuestion(c, d) ==
    /\ c.mode = d.mode /\ c.resolvers = d.resolvers
    /\ c.expected = d.expected /\ c.match = d.match

Retime ==
    \E c \in Configs :
        /\ SameQuestion(c, config)
        /\ config' = c
        /\ state' = ResetStreaks(state)
        /\ window' = WindowFrom(state)
        /\ UNCHANGED now

\* An edit of what is asked: the monitor starts as a new one.
Redefine ==
    \E c \in Configs :
        /\ ~SameQuestion(c, config)
        /\ config' = c
        /\ state' = InitialState
        /\ window' = WindowFrom(InitialState)
        /\ UNCHANGED now

Next == Check \/ Retime \/ Redefine

Spec == Init /\ [][Next]_vars

-----------------------------------------------------------------------------
(****************************** the reference ******************************)

Seen(i) == window.seen[i]
Length == Len(window.seen)

\* The i-th check since the reset was a bad one.
Bad(i) ==
    \/ Seen(i).agreed = {}
    \/ config.mode = "EXPECTED"
       /\ \E v \in Seen(i).agreed : IF config.match = "EXACT"
                                    THEN v # config.expected
                                    ELSE config.expected \ v # {}

\* The n checks that end with the i-th were all bad, all good, all saw v.
BadRun(i, n)  == n <= i /\ \A j \in (i - n + 1)..i : Bad(j)
GoodRun(i, n) == n <= i /\ \A j \in (i - n + 1)..i : ~Bad(j)
Steady(i, n, v) == n <= i /\ \A j \in (i - n + 1)..i : Seen(j).agreed = {v}

\* An incident is open when something opened it and nothing resolved it since.
OpenedAt == {i \in 1..Length : BadRun(i, config.failureThreshold)}
              \cup (IF window.open THEN {0} ELSE {})
ExpectedOpen ==
    \E i \in OpenedAt : \A j \in (i + 1)..Length : ~GoodRun(j, config.recoveryThreshold)

\* The ends of the runs of changeThreshold equal values.
SettledAt(v) == {i \in 1..Length : Steady(i, config.changeThreshold, v)}
ExpectedBaseline(v) ==
    \/ /\ v = window.baseline
       /\ \A u \in Answers : SettledAt(u) = {}
    \/ /\ config.mode = "WATCH"
       /\ \E i \in SettledAt(v) : \A u \in Answers : \A j \in SettledAt(u) : j <= i

-----------------------------------------------------------------------------
(******************************* properties ********************************)

\* The loop over the aliases finds what the hostname leads to, whatever the order of the
\* records and circles of aliases, and only that; one text that is no name spoils a
\* response only if it is looked at (query.ts:94-118).
Misread ==
    {x \in Responses :
        \E type \in {Type, "CNAME"} : Answered(Hostname, type, x) # Told(Hostname, type, x)}
AnswersAreTold == now = 0 => Misread = {}

\* An incident is open exactly when failureThreshold consecutive bad checks have
\* opened it (or it was open at the reset) and no run of recoveryThreshold good
\* ones has ended since: flapping neither opens nor resolves.
IncidentFollowsHistory == state.incidentOpen <=> ExpectedOpen

\* WATCH: the baseline is the last value that changeThreshold consecutive checks
\* agreed on, and a value seen in between never replaces it.  EXPECTED: there is none.
BaselineFollowsHistory ==
    IF config.mode = "WATCH" THEN ExpectedBaseline(state.baseline)
                             ELSE state.baseline = window.baseline

\* The status says what the history says, after every check and after every reset:
\* CRITICAL means an open incident, and a monitor is HEALTHY only when its last check was
\* good, every resolver gave the same value and nothing is pending against the baseline.
StatusFollowsHistory ==
    /\ (state.status = "CRITICAL") <=> ExpectedOpen
    /\ state.status = "HEALTHY" =>
           /\ Length > 0 /\ ~Bad(Length) /\ Seen(Length).unanimous
           /\ config.mode = "WATCH" => Seen(Length).agreed = {state.baseline}
===============================================================================
