SPECIFICATION FairSpec
CONSTANTS
    Users = {u1, u2}
    GroupIds = {g1}
    TaskIds = {t1}
    RecIds = {}
    Connections = {c1, c2}
    NULL = NULL
INVARIANTS
    TypeOK
    References
PROPERTIES
    GroupsInhabited
    ResponsibleInGroup
    EveryRequestEnds
