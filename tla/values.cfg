SPECIFICATION Spec
CONSTANTS
    MaxInt = 4
    MinutesPerHour = 3
    Requests <- SomeRequests
    RECURRENCE_MAX = 5
    FirstToday <- First
    LastToday <- Final
    FirstDay <- Earliest
    LastDay <- Latest
    LastTimestamp <- Timestamp
    MaxPast = 1
    NULL = NULL
INVARIANTS
    CommittedIsReadable
    AnswerMeansRequest
    CanComplete
    PendingIsTrue
PROPERTIES
    MovesOn
    KeepsLength
