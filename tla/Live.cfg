SPECIFICATION LiveSpec
CONSTANTS
    MaxRow = 2
    Gone = gone
    NoSource = NoSource
    MaxChanges = 3
    MaxLoads = 2
INVARIANTS
    TypeOK
    CoveredViewIsCurrent
    OneItemPerRow
PROPERTIES
    EndIsOffered
    ChangeReachesView
CHECK_DEADLOCK FALSE
