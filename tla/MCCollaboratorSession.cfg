CONSTANTS
    s1 = s1
    s2 = s2
    Sockets = {s1, s2}
    Limit = 1
    Rejoins = FALSE
SPECIFICATION FairSpec
INVARIANTS
    TypeOK
    WritersFoundAPlace
    WriterIsTimed
    MemberIsWatched
    ModeIsHonest
    PresenceUnlessExpelled
PROPERTIES
    RevokedIsOut
    RevokedStopsWriting
