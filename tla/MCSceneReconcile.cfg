CONSTANTS
    shape = shape
    image = image
    photo = photo
    Edits <- SmallEdits
    Files = {photo}
    NoFile = NoFile
SPECIFICATION Spec
INVARIANTS
    TypeOK
    NewestWins
    ImageSavedWithFile
PROPERTY
    OnlyForward
