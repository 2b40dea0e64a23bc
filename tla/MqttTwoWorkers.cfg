SPECIFICATION FairSpec
CONSTANTS
    Workers = {w1, w2}
    MaxCommands = 0
    MaxFaults = 0
    MaxInbox = 1
    None = None
PROPERTIES
    LongLivedConnection
CHECK_DEADLOCK FALSE
