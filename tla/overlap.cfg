SPECIFICATION FairSpec
CONSTANTS
    Users = {u1}
    GroupIds = {}
    TaskIds = {t1, t2}
    RecIds = {r1}
    Connections = {c1, c2}
    NULL = NULL
    Overlaps <- AnyOverlap
INVARIANTS
    TypeOK
    References
PROPERTY EveryRequestEnds
