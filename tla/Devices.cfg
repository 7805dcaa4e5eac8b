SPECIFICATION FairSpec
CONSTANTS
    Device <- MCDevice
    Value <- MCValue
    Owner <- MCOwner
    FirstID <- MCFirstID
    InternalID <- MCInternalID
    MaxWrites = 3
CHECK_DEADLOCK FALSE
INVARIANTS
    TypeOK
    MirrorCurrent
PROPERTIES
    BecomesCurrent
