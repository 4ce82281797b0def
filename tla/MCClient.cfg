SPECIFICATION FairSpec
CONSTANTS
    t1 = t1
    s1 = s1
    s2 = s2
    ada = ada
    vic = vic
    Nobody = Nobody
    Tabs = {t1}
    Watched = {t1}
    Sessions = {s1, s2}
    Users = {ada, vic}
    Admins = {ada}
    Owner <- Owners
    MaxRevision = 2
    MaxPosts = 1
    Others = {"edit"}
PROPERTIES
    EditsAreNotLost
    ActsAsShown
    PagesKeepUp
