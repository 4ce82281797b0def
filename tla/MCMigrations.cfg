SPECIFICATION FairSpec
CONSTANTS
    table = table
    index = index
    column = column
    p1 = p1
    p2 = p2
    p3 = p3
    None = None
    Names = {table, index, column}
    Processes = {p1, p2, p3}
    Migrators = {p1, p3}
    Deployments <- TwoDeployments
    MaxCrashes = 3
INVARIANTS
    SchemaIsAPrefix
    SchemaIsServed
PROPERTIES
    LastReleaseServes
CHECK_DEADLOCK FALSE
