SPECIFICATION FairSpec
CONSTANTS
    m1 = m1
    x1 = x1
    x2 = x2
    i1 = i1
    e1 = e1
    e2 = e2
    None = None
    Monitors = {m1}
    BatchSize = 1
    MaxFailures = 1
    Runs = {x1, x2}
    Healths = {"HEALTHY"}
    HourLength = 2
    CheckAge = 1
    SummaryAge = 2
    Interval = 1
    MaxCheckTime = 4
    MaxRevision = 2
    Incidents = {i1}
    Events = {e1, e2}
    EventAge = 1
    IncidentAge = 1
    DeliveryAge = 1
    MaxEventTime = 2
INVARIANTS
    ArchiveIsExact
    ReferencesHold
PROPERTIES
    LiveRowsStay
    HistoryGoes
