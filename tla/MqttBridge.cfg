SPECIFICATION FairSpec
CONSTANTS
    Workers = {w1}
    MaxCommands = 2
    MaxFaults = 7
    MaxInbox = 1
    None = None
INVARIANTS
    TypeOK
    NoCommandVanishes
    RepeatedOnlyIfPutBack
    OvertakenOnlyIfPutBack
    OneLossPerBreak
    BackOffFollowsBreaks
PROPERTIES
    CommandsSettle
    ImplementsCommandChannel
CHECK_DEADLOCK FALSE
