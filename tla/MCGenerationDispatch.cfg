SPECIFICATION Spec
CONSTANTS
    MaxModels = 3
    MaxTransports = 2
CHECK_DEADLOCK FALSE
INVARIANTS
    ContinuationIsKept
    FallbackAuthorised
    StreamsAccounted
    NeverToldAsStaticRejection
PROPERTIES
    ImplementsPlan
