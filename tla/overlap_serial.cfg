SPECIFICATION Spec
CONSTANTS
    Users = {u1}
    GroupIds = {}
    TaskIds = {t1, t2, t3, t4}
    RecIds = {r1, r2}
    Connections = {c1, c2}
    NULL = NULL
    Overlaps <- SerialOverlaps
SYMMETRY Symmetry
PROPERTY ImplementsSerial
