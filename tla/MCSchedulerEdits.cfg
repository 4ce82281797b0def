SPECIFICATION Spec
CONSTANTS
    r1 = r1
    a = a
    q1 = q1
    q2 = q2
    t1 = t1
    t2 = t2
    t3 = t3
    m1 = m1
    w1 = w1
    w2 = w2
    None = None
    c1 = c1
    LeaseGrace = 1
    RetryDelay = 1
    Monitors = {m1}
    Workers = {w1}
    Tokens = {t1, t2}
    Clients = {c1}
    Configs <- EditConfigs
    Answers <- OneAnswer
    Concurrency = 1
    ReadLag = 0
    MaxTime = 3
    MaxRevision = 3
SYMMETRY TokenSymmetry
INVARIANTS
    TypeOK
    IncidentConsistent
    OldQuestionIsSilent
    RevisionNamesConfig
    StreaksAreCurrent
PROPERTIES
    ImplementsLife
CHECK_DEADLOCK FALSE
