CONSTANTS
    s1 = s1
    s2 = s2
    Sockets = {s1, s2}
    Inactivity = 6
    Wait = 2
    Window = 3
    MaxLag = 2
SPECIFICATION WindowSpec
SYMMETRY Symmetry
INVARIANTS
    WindowTypeOK
    NobodyOverstays
    ExactWhenSparse
    SettledInTime
PROPERTIES
    MissesOnlyTheGap
    TwiceOnlyOnBorder
