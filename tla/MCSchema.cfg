CONSTANTS
    c1 = c1
    c2 = c2
    Client = {c1, c2}
    Absent = Absent
    Keep = Keep
    Null = Null
    Tombstone = Tombstone
    None = None
    Table = {"t", "u"}
    Ids = {1, 2}
    Setups <- MCSetups
    Menus <- MCMenus
    MaxJobs = 3
    MaxRetries = 1
SPECIFICATION Spec
INVARIANT RowsFitSchema
PROPERTY ChangesSerialize
CHECK_DEADLOCK FALSE
