SPECIFICATION Spec
CONSTANTS
    r1 = r1
    r2 = r2
    r3 = r3
    a = a
    b = b
    Configs <- AllConfigs
    Responses <- ReadResponses
    h = h
    n1 = n1
    n2 = n2
    Garbled = Garbled
    Hostname = h
    Type = "A"
    MaxChecks = 6
INVARIANTS
    AnswersAreTold
    IncidentFollowsHistory
    BaselineFollowsHistory
    StatusFollowsHistory
