SPECIFICATION Spec
CONSTANTS
    Users = {u1}
    GroupIds = {g1}
    TaskIds = {t1, t2}
    RecIds = {r1}
    NULL = NULL
INVARIANT NoUnexpectedToggle
