SPECIFICATION FairSpec
CONSTANTS
    Calls = {c1, c2}
    Uids = {u1}
    Names = {n1}
    PoolSize = 1
    Capacity = 1
    MaxRows = 2
    Unknown = Unknown
    Failure = Failure
    NULL = NULL
INVARIANTS
    TypeOK
    NoConnectionLost
    CleanEndIsComplete
PROPERTIES
    NameIsKept
    CallsEnd
    LeaverFreesConnection
