--------------------------- MODULE MCNotifications ---------------------------
(* Instances of Notifications. *)
EXTENDS Notifications, TLC

CONSTANTS m1, m2, j1, j2, rule1, rule2, ch1, ch2, d1, d2, t1, t2, t3, alert

Rule(scope, cs) == [types |-> {alert}, channels |-> cs, scope |-> scope]

\* One rule, for all monitors.
OneRule == {Rule({}, {ch1})}

\* Targeted rules.
TargetedRules == {Rule({m1}, {ch1}), Rule({m1, m2}, {ch1})}

Symmetric == Permutations(Dispatchers)
==============================================================================
