SPECIFICATION Spec
CONSTANTS
    m1 = m1
    m2 = m2
    j1 = j1
    j2 = j2
    rule1 = rule1
    rule2 = rule2
    ch1 = ch1
    ch2 = ch2
    d1 = d1
    d2 = d2
    t1 = t1
    t2 = t2
    t3 = t3
    alert = alert
    None = None
    Monitors = {m1, m2}
    Jobs = {j1, j2}
    Rules = {rule1}
    Channels = {ch1}
    Dispatchers = {d1}
    Tokens = {t1, t2, t3}
    RuleConfigs <- TargetedRules
    Types = {alert}
    BatchSize = 2
    MaxAttempts = 1
    MaxTime = 2
    MaxRetries = 0
SYMMETRY Symmetric
INVARIANTS
    NoReplay
PROPERTIES
    WithdrawnStaysSilent
