CONSTANTS
    x = x
    y = y
    red = red
    blue = blue
    b1 = b1
    b2 = b2
    Ids = {x, y}
    Looks = {red, blue}
    Bulks = {b1, b2}
    MaxVersion = 2
    MaxEvents = 2
    Deleted = Deleted
    Nothing = Nothing
SPECIFICATION FairSpec
INVARIANTS
    TypeOK
    EventsTellTheScene
    SentUnlessCrowded
    BufferedIsScheduled
    SentOnceUnlessOverlapping
PROPERTY
    BufferDrains
