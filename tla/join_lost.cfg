SPECIFICATION Spec
CONSTANTS
    Users = {u1, u2}
    GroupIds = {g1}
    TaskIds = {t1}
    RecIds = {}
    Connections = {c1, c2}
    NULL = NULL
PROPERTY OnlyViewerLeaves
