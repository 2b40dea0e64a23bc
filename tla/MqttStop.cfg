SPECIFICATION FairSpec
CONSTANTS
    Workers = {w1}
    MaxCommands = 0
    MaxFaults = 1
    MaxInbox = 0
    None = None
PROPERTIES
    StopReturns
CHECK_DEADLOCK FALSE
