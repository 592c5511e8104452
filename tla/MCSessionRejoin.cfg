CONSTANTS
    s1 = s1
    s2 = s2
    Sockets = {s1, s2}
    Limit = 1
    Rejoins = TRUE
SPECIFICATION Spec
INVARIANT
    RefusedCannotWrite
