CONSTANTS
    s1 = s1
    s2 = s2
    b = b
    e1 = e1
    e2 = e2
    v1 = v1
    v2 = v2
    c1 = c1
    c2 = c2
    Sockets = {s1, s2}
    Edits = {b, e1}
    Base = {b}
    SaveSlots = {v1, v2}
    CloserSlots = {c1, c2}
    MaxLate = 0
    Misbehaviours = {}
    NoSnapshot = NoSnapshot
    NoSave = NoSave
SPECIFICATION FairSpec
PROPERTIES
    JoinEnds
    CloseEnds
    EditReachesStorage
