SPECIFICATION Spec
CONSTANTS
    Users = {u1, u2, u3}
    GroupIds = {g1}
    TaskIds = {t1, t2, t3, t4}
    RecIds = {r1, r2}
    NULL = NULL
SYMMETRY Symmetry
INVARIANTS
    TypeOK
    References
    ResponsibleInGroup
    GroupsInhabited
    RecurrenceIsChain
    PastIsCompleted
    DeletableIsUnreferenced
    OpenCanBeCompleted
PROPERTIES
    PastIsKept
    MovesOneOccurrence
    ImplementsHistory
