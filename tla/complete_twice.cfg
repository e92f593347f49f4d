SPECIFICATION Spec
CONSTANTS
    Users = {u1}
    GroupIds = {}
    TaskIds = {t1, t2, t3}
    RecIds = {r1}
    Connections = {c1, c2}
    NULL = NULL
    Overlaps <- AnyOverlap
INVARIANT OneNextTask
