SPECIFICATION Spec
CONSTANTS
    c1 = c1
    c2 = c2
    Conn = {c1, c2}
    Chan = {n1, n2}
    MaxWrites = 2
    MaxListens = 2
    MaxNotify = 2
    MaxSeq = 1
    BufCap = 1
    Counts <- MCCounts
    Scripts <- MCScripts
    Nil = Nil
    Admin = {a1, a2}
    Client = {l1}
    r1 = r1
    r2 = r2
    p1 = p1
    Role = {r1, r2}
    Password = {p1, p2}
    Bootstrap <- MCBootstrap
    MaxRoleOps = 4
    None = None
    Validator = {v1, v2}
    MaxKey = 2
    RefreshAge = 1
    StaleAge = 1
    Background = Background
    Worker = {w1, w2}
    Namespace = {s1}
    MaxBackups = 1
    MaxRandom = 1
    Zero = Zero
CHECK_DEADLOCK FALSE
INVARIANTS   AcknowledgedPasswordsHold TrustIsBounded BackupsReadable
PROPERTIES DrainersExit StaleIsCleared
