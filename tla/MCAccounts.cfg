SPECIFICATION Spec
CONSTANTS
    u1 = u1
    u2 = u2
    pw1 = pw1
    pw2 = pw2
    p1 = p1
    p2 = p2
    q1 = q1
    q2 = q2
    s1 = s1
    s2 = s2
    s3 = s3
    None = None
    CommandLine = CommandLine
    Users = {u1, u2}
    Passwords = {pw1, pw2}
    Processes = {p1, p2}
    Requests = {q1, q2}
    SessionIds = {s1, s2, s3}
    HashSlots = 1
    MaxHashes = 3
SYMMETRY Symmetric
INVARIANTS
    TypeOK
    OneInitialAccount
    SessionsFollowPassword
PROPERTIES
    ChangesAreAuthorized
