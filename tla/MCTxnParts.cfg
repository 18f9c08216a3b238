SPECIFICATION Spec
CONSTANTS
    MaxKey = 4
    Lo = 2
    Hi = 4
    Value = {v1}
    Tombstone = Tombstone
    None = None
    Unreadable = Unreadable
    MaxMutations = 2
    Wall = {1, 2, 3, 4}
    Remote <- MCRemote
    LogicalMod = 8
INVARIANT ScanAgreesWithGet
PROPERTIES InOrder ProduceReturns ClockAdvances
