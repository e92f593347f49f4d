SPECIFICATION FairSpec
CONSTANTS
    Keys = {k1, k2}
    Handles = {h1, h2}
    Headers <- SomeHeaders
    Fallback = 3
    Retry = 1
    FetchTime = 1
    MaxFailures = 1
    Lead = 8
    NULL = NULL
INVARIANTS
    TypeOK
    CurrentKeyAccepted
    UpdatedWhileServing
PROPERTIES
    TaskStops
    RetiredKeyForgotten
    VerificationEnds
CHECK_DEADLOCK FALSE
