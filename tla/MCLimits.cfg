SPECIFICATION LimitsSpec
CONSTANTS
    r1 = r1  r2 = r2  r3 = r3
    p1 = p1  p2 = p2
    ip = ip  mail = mail
    Nobody = Nobody
    Requests = {r1, r2, r3}
    Servers = {p1, p2}
    Keys = {ip, mail}
    ProcessOf <- Process
    KeysOf <- SameKeys
    Maximum <- Maxima
    Window = 2
    PoolSize = 1
    MaxAttempts = 2
PROPERTIES
    ImplementsLimiter
    NobodyWaitsForEver
