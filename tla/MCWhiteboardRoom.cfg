CONSTANTS
    s1 = s1
    s2 = s2
    b = b
    e1 = e1
    e2 = e2
    v1 = v1
    v2 = v2
    c1 = c1
    c2 = c2
    Sockets = {s1, s2}
    Edits = {e1, e2}
    Base = {}
    SaveSlots = {v1, v2}
    CloserSlots = {c1, c2}
    MaxLate = 1
    Misbehaviours = {"fetch", "save", "timeout", "crash"}
    NoSnapshot = NoSnapshot
    NoSave = NoSave
SPECIFICATION Spec
SYMMETRY Symmetry
INVARIANTS
    TypeOK
    TrackedIffOpen
    EmptyRoomIsQuiet
    DirtyIsScheduled
    NothingLost
    ActiveHasSeenAll
PROPERTY
    ImplementsBoard
