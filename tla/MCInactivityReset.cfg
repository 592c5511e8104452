CONSTANTS
    s1 = s1
    s2 = s2
    Sockets = {s1, s2}
    Inactivity = 6
    Wait = 2
SPECIFICATION Spec
PROPERTY
    OnlyInactiveDowngraded
