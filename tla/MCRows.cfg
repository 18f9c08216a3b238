CONSTANTS
    Client = {c1, c2}
    Absent = Absent
    Keep = Keep
    Null = Null
    Default = Default
    Ids = 3
    CIds = 1
    a = a
    bad = bad
    Val = {a, bad}
    Rejected = {bad}
    Setups <- MCSetups
    Stmts <- MCStmts
    MaxStmts = 3
    MaxRetries = 1
    None = None
SPECIFICATION Spec
SYMMETRY Symmetry
INVARIANTS
    IndexAgrees
    ViolationsExplained
    OrphansExplained
PROPERTY SerialDense
CHECK_DEADLOCK FALSE
