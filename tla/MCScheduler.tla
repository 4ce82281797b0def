----------------------------- MODULE MCScheduler -----------------------------
(* Instances of Scheduler. *)
EXTENDS SchedulerLife, TLC

CONSTANTS r1, a, q1, q2, t1, t2, t3, m1, w1, w2, c1

Config(mode, query, interval, f, r, c) ==
    [mode |-> mode, query |-> query, match |-> "EXACT", expected |-> {a}, resolvers |-> {r1},
     timeout |-> 1, interval |-> interval,
     failureThreshold |-> f, recoveryThreshold |-> r, changeThreshold |-> c]

\* Workers: one configuration, incidents that open and resolve quickly.
WatchConfigs == {Config("WATCH", q1, 2, 1, 1, 2)}

\* Edits: another question, and the same question with other thresholds.
EditConfigs == {Config("EXPECTED", q1, 1, 2, 1, 1), Config("EXPECTED", q1, 1, 1, 1, 1),
                Config("EXPECTED", q2, 1, 1, 1, 1)}

OneAnswer == {{}, {a}}

TokenSymmetry  == Permutations(Tokens)
WorkerSymmetry == Permutations(Tokens) \cup Permutations(Workers)
==============================================================================
