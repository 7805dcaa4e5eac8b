SPECIFICATION FairSpec
CONSTANTS
    a = a
    b = b
    NoPlugin = NoPlugin
    Boot <- NoneAtBoot
    Added = {c}
CHECK_DEADLOCK FALSE
PROPERTIES
    ToldStarts
