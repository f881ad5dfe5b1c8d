SPECIFICATION FairSpec
CONSTANTS
    BufferSize = 5
    MaxPackageSize = 3
    LengthField = 2
    Sizes = {2, 3, 5}
    WireCapacity = 3
    MaxBytes = 10
INVARIANTS
    TypeOK
    BuffersFit
    StreamInOrder
    NeverFull
PROPERTIES
    OversizedBlocks
    StreamSpec
    TakenIsDelivered
CHECK_DEADLOCK FALSE
