SPECIFICATION Spec
CONSTANTS
    NULL = NULL
    Error = Error
    TextOrder <- MCTextOrder
    IntWidth = 5
    FloatBits = 4
    MaxIterations = 3
    Group = 2
    ByteSize = 4
    MaxDays = 6
    MaxMicros = 30
    Inputs <- MCInputs
INVARIANTS ScansAgree RelationsAgree AggregatesAgree  CopyRoundTrips DefinitionsKept
