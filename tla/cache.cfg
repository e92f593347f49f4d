SPECIFICATION CacheSpec
CONSTANTS
    Users = {u1}
    GroupIds = {}
    TaskIds = {t1, t2, t3}
    RecIds = {r1}
    NULL = NULL
    Viewer = u1
    Slots = {s1, s2}
    Failure = Failure
    MaxMisses = 1
SYMMETRY Symmetry
INVARIANTS
    CacheTypeOK
    CacheAgrees
